---- MODULE Spec2Model ----
(***************************************************************************)
(* WebPrinter: the job record store (JobRegistry), the create_job handler  *)
(* and the background pipeline process_print_job of app.py, driving the    *)
(* CUPS and SumatraPDF backends of print_backend.py.                       *)
(*                                                                         *)
(* Python objects live in `heap` (object reference -> field record), so    *)
(* that holding a reference and holding a copy are different things.       *)
(***************************************************************************)
EXTENDS Integers, Sequences, FiniteSets, TLC

\* ------------------------------------------------------------- bounds
\* Number of job ids (uuid4 tokens, named 1..MaxJobs in creation order).
MaxJobs == 3
\* Number of faults of the environment in one run: a stored file that
\* vanished, a command that exits non-zero or times out, an lp that prints no
\* request id.
MaxFaults == 1
\* Number of callers that use the JobRegistry directly (SpecRegistry).
MaxCallers == 2
\* Number of requests that are handled at the same time.
MaxRequests == 2
\* Chunks of the longest upload that is followed to its end.
MaxChunks == 2

\* ------------------------------------------------- program constants
\* ThreadPoolExecutor(max_workers=2)
max_workers == 2
\* for attempt in range(1, 13)
MaxAttempts == 12
\* _validate_total_chunks: the most chunks an upload may announce.
MaxTotalChunks == 5000

JobIds == 1..MaxJobs
\* The upload ids of the chunked uploads.
UploadIds == {"upload-0001", "upload-0002"}
Callers == 1..MaxCallers
Requests == 1..MaxRequests

None == "<None>"
\* An Optional whose value is not a string: nothing, or one value.
Nothing == << >>
Some(value) == <<value>>
NoRef == <<"None", 0>>

MsgQueued == "File caricato, in attesa di stampa."
MsgPreparing == "Preparazione del file."
MsgCompleted == "Stampa inviata con successo."
MsgFailed == "Errore durante il processo di stampa."
MsgCleanup == "Stampa completata, ma non riesco a eliminare il file temporaneo."

TERMINAL_STATUSES == {"completed", "failed"}

Min(a, b) == IF a < b THEN a ELSE b
Max(a, b) == IF a > b THEN a ELSE b

VARIABLES
    backend,      \* printer_backend: "cups" | "sumatra" (fixed at boot)
    heap,         \* object reference -> PrintJob field record
    _jobs,        \* JobRegistry._jobs: job id -> object reference
    files,        \* job ids whose stored_path exists on disk
    queue,        \* the executor's work queue (FIFO of job ids)
    sub_pc,       \* create_job handler of job j: idle | render | render_rest | returned
    seen,         \* create_job handler: the status _render_job has read so far
    pc,           \* process_print_job run of job j
    snapshot,     \* process_print_job local `snapshot` (a reference)
    current,      \* process_print_job local `current` (a reference)
    request_id,   \* print_file local `job_id`
    attempt,      \* _wait_for_release local `attempt`
    outcome,      \* how print_file ended: none | returned(value) | raised(exc, text)
    faults,       \* environment faults so far
    caller,       \* SpecRegistry: the reference a direct caller of the registry holds
    backend_boot_error, \* the error string build_backend returned, or None
    uploads,      \* UploadRegistry._uploads and the staged files: upload id -> state
    response,     \* what the last request handler answered, and what it ran
    call,         \* a direct call of a backend method and its result
    executor,     \* the ThreadPoolExecutor: "running" | "shutdown"
    _uploads,     \* UploadRegistry._uploads, field by field: upload id -> entry
    disk,         \* UPLOAD_DIR: upload id -> its part file and its final file
    requests      \* requests in flight: what each one holds between its steps

vars == <<backend, heap, _jobs, files, queue, sub_pc, seen, pc, snapshot,
          current, request_id, attempt, outcome, faults, caller,
          backend_boot_error, uploads, response, call, executor, _uploads, disk,
          requests>>

pipeline_vars == <<backend, files, queue, sub_pc, seen, pc, snapshot, current,
                   request_id, attempt, outcome, faults>>

upload_vars == <<_uploads, disk, requests>>

handler_vars == <<backend_boot_error, uploads, response, call, executor, upload_vars>>

\* ------------------------------------------------------------ objects
\* The PrintJob built by create_job, and the copies dataclasses.replace makes.
JobRef(j) == <<"job", j>>
SnapshotRef(j) == <<"snapshot", j>>
CurrentRef(j) == <<"current", j>>
TempRef(j) == <<"temp", j>>
CallerRef(c) == <<"caller", c>>

PrintJob(id, message) ==
    [id |-> id, status |-> "queued", progress |-> 8, message |-> message,
     error |-> None, printer_job_id |-> None]

\* for key, value in changes.items(): setattr(job, key, value)
setattrs(job, changes) ==
    [f \in DOMAIN job |-> IF f \in DOMAIN changes THEN changes[f] ELSE job[f]]

Release(h, refs) == [o \in (DOMAIN h) \ refs |-> h[o]]

\* ------------------------------------------------------- JobRegistry
\* A mutation of replace: hands out the stored object itself.
replace_alias(h, src, fresh) == [ref |-> src, heap |-> h]

\* dataclasses.replace(job): a new object with the same field values.
replace(h, src, fresh) == [ref |-> fresh, heap |-> (fresh :> h[src]) @@ h]

\* self._jobs.get(job_id)
lookup(jobs, job_id) == IF job_id \in DOMAIN jobs THEN jobs[job_id] ELSE NoRef

\* A mutation: self._jobs = {job.id: job}.
JobRegistry_create_reset(h, jobs, job) == (h[job].id :> job)

\* JobRegistry.create: stores the caller's object, not a copy.
JobRegistry_create(h, jobs, job) == (h[job].id :> job) @@ jobs

\* JobRegistry.get; the lock makes it one step.
JobRegistry_get(h, jobs, job_id, fresh) ==
    LET job == lookup(jobs, job_id)
    IN  IF job = NoRef THEN [ref |-> NoRef, heap |-> h]
        ELSE replace(h, job, fresh)

\* A mutation: an update of an unknown id answers with a record made of the
\* changes.
JobRegistry_update_upsert(h, jobs, job_id, changes, fresh) ==
    LET job == lookup(jobs, job_id)
    IN  IF job = NoRef THEN [ref |-> fresh, heap |-> (fresh :> changes) @@ h]
        ELSE replace([h EXCEPT ![job] = setattrs(@, changes)], job, fresh)

\* JobRegistry.update; the lock makes it one step with respect to get/update.
JobRegistry_update(h, jobs, job_id, changes, fresh) ==
    LET job == lookup(jobs, job_id)
    IN  IF job = NoRef THEN [ref |-> NoRef, heap |-> h]
        ELSE replace([h EXCEPT ![job] = setattrs(@, changes)], job, fresh)

\* jobs.update(...) whose returned snapshot is dropped at once.
update_(h, jobs, job_id, changes) ==
    Release(JobRegistry_update(h, jobs, job_id, changes, TempRef(job_id)).heap,
            {TempRef(job_id)})

\* ------------------------------------------------ process_print_job
PreparingChanges ==
    [status |-> "preparing", progress |-> 20, message |-> MsgPreparing]

\* A mutation: the callback stores the percent as it comes.
ProgressChanges_unclamped(percent, message) ==
    [status |-> "printing", progress |-> percent, message |-> message]

\* A mutation: the callback forgets the status.
ProgressChanges_no_status(percent, message) ==
    [progress |-> Max(0, Min(99, percent)), message |-> message]

\* The closure `progress` of process_print_job.
ProgressChanges(percent, message) ==
    [status |-> "printing", progress |-> Max(0, Min(99, percent)), message |-> message]

\* A mutation: the backend's job id is not recorded.
CompletedChanges_no_id(printer_job_id) ==
    [status |-> "completed", progress |-> 100, message |-> MsgCompleted, error |-> None]

CompletedChanges(printer_job_id) ==
    [status |-> "completed", progress |-> 100, message |-> MsgCompleted,
     printer_job_id |-> printer_job_id, error |-> None]

\* A mutation: the failure leaves the status where it was.
FailedChanges_no_status(text) ==
    [progress |-> 100, message |-> MsgFailed, error |-> text]

\* A mutation: the failure leaves the progress where it was.
FailedChanges_no_progress(text) ==
    [status |-> "failed", message |-> MsgFailed, error |-> text]

\* A mutation: the failure keeps the last progress message.
FailedChanges_keep_message(text) ==
    [status |-> "failed", progress |-> 100, error |-> text]

FailedChanges(text) ==
    [status |-> "failed", progress |-> 100, message |-> MsgFailed, error |-> text]

\* A mutation: the cleanup notice also marks the job completed.
CleanupChanges_status == [status |-> "completed", message |-> MsgCleanup]

CleanupChanges == [message |-> MsgCleanup]

\* A mutation: except PrintBackendError.
handles_backend_error(exc) == exc = "PrintBackendError"

\* except Exception: every exception the backend raises is an Exception.
handles(exc) == exc \in {"PrintBackendError", "TimeoutExpired"}

NoOutcome == [kind |-> "none", exc |-> None, value |-> None, text |-> None]
Returned(value) == [kind |-> "returned", exc |-> None, value |-> value, text |-> None]
Raised(exc, text) == [kind |-> "raised", exc |-> exc, value |-> None, text |-> text]

\* A mutation: print_file returns nothing.
print_file_return_none(job_id) == Returned(None)

\* CupsPrinterBackend.print_file line 175: return job_id
print_file_return(job_id) == Returned(job_id)

\* A mutation: the reported value is not capped.
PollProgress_uncapped(a) == 68 + a * 2

\* A mutation: the reported value counts down.
PollProgress_descending(a) == Max(68, 90 - a * 2)

\* min(90, 68 + attempt * 2)
PollProgress(a) == Min(90, 68 + a * 2)

\* A mutation: the pool starts a thread for every task.
Running_unbounded == {}

\* The tasks the pool's threads are executing.
Running == {j \in JobIds : pc[j] \notin {"none", "pending", "cancelled", "done"}}

\* --------------------------------------------------- request handlers
\* What a staged upload can be: no entry, an entry whose chunks are not all
\* there, a complete entry whose file is gone, and a complete entry with its
\* file: a readable document, a broken PDF or an encrypted PDF.
UploadStates == {"absent", "incomplete", "missing", "completed", "corrupt", "encrypted"}

\* The form of POST /jobs.
Forms ==
    [valid_id : BOOLEAN,
     color_mode : {"bw", "COLOR", "sepia"},
     copies : {0, 1, 99, 100},
     printer : {"p1", "ghost"},
     pdf_password : {None, "right", "wrong"}]

\* What list_printers answers: the command fails, or these printers.
Listings ==
    {[ok |-> FALSE, printers |-> {}], [ok |-> TRUE, printers |-> {}],
     [ok |-> TRUE, printers |-> {"p1"}]}

MsgDecrypted == "PDF protetto decriptato, in attesa di stampa."
MsgNoBackendJob == "Backend di stampa non disponibile."
MsgInvalid == "Richiesta non valida."
MsgNoUpload == "File non caricato o upload incompleto."
MsgColor == "Modalita colore non valida."
MsgCopies == "Il numero di copie deve essere tra 1 e 99."
MsgPrinter == "Stampante selezionata non valida."
MsgListing == "Errore nel caricamento stampanti: impossibile leggere le stampanti."

\* str.lower() on the color modes of Forms.
lower(text) == IF text = "COLOR" THEN "color" ELSE text

\* A mutation: the failed job shown takes the id of the first stored job.
error_job_id_reused == CHOOSE j \in JobIds : \A i \in JobIds : j <= i

\* uuid4 of _error_job: an id no stored job has.
error_job_id == 0

Rejected(exc, text, ran, popped) ==
    [exc |-> exc, error |-> text, ran |-> ran, popped |-> popped,
     message |-> MsgInvalid]

\* A mutation: the printers are listed before the form is looked at.
create_job_try_listing_first(upload, form, listing) ==
    IF ~form.valid_id
    THEN Rejected("HTTPException", "Upload ID non valido.", << >>, FALSE)
    ELSE IF upload \in {"absent", "incomplete"}
    THEN Rejected("ValueError", MsgNoUpload, << >>, TRUE)
    ELSE IF upload = "missing"
    THEN Rejected("ValueError", "File caricato non disponibile sul server.", << >>, TRUE)
    ELSE IF ~listing.ok
    THEN Rejected("PrintBackendError", MsgListing, <<"list_printers">>, TRUE)
    ELSE IF lower(form.color_mode) \notin {"bw", "color"}
    THEN Rejected("ValueError", MsgColor, <<"list_printers">>, TRUE)
    ELSE IF form.copies < 1 \/ form.copies > 99
    THEN Rejected("ValueError", MsgCopies,
                  <<"list_printers">>, TRUE)
    ELSE IF form.printer \notin listing.printers
    THEN Rejected("ValueError", MsgPrinter,
                  <<"list_printers">>, TRUE)
    ELSE [exc |-> None, error |-> None, ran |-> <<"list_printers">>, popped |-> TRUE,
          message |-> MsgQueued]

\* The try block of create_job, lines 253-267, in the order of the code: how
\* it ends, the backend operations it ran, and whether the upload was consumed.
create_job_try(upload, form, listing) ==
    IF ~form.valid_id
    THEN Rejected("HTTPException", "Upload ID non valido.", << >>, FALSE)
    ELSE IF upload \in {"absent", "incomplete"}
    THEN Rejected("ValueError", MsgNoUpload, << >>, TRUE)
    ELSE IF upload = "missing"
    THEN Rejected("ValueError", "File caricato non disponibile sul server.", << >>, TRUE)
    ELSE IF lower(form.color_mode) \notin {"bw", "color"}
    THEN Rejected("ValueError", MsgColor, << >>, TRUE)
    ELSE IF form.copies < 1 \/ form.copies > 99
    THEN Rejected("ValueError", MsgCopies, << >>, TRUE)
    ELSE IF ~listing.ok
    THEN Rejected("PrintBackendError", MsgListing, <<"list_printers">>, TRUE)
    ELSE IF form.printer \notin listing.printers
    THEN Rejected("ValueError", MsgPrinter,
                  <<"list_printers">>, TRUE)
    ELSE IF upload = "corrupt"
    THEN Rejected("ValueError", "PDF non valido o corrotto", <<"list_printers">>, TRUE)
    ELSE IF upload = "encrypted" /\ form.pdf_password = None
    THEN Rejected("ValueError",
                  "Il PDF e protetto da password. Inserisci la password PDF.",
                  <<"list_printers">>, TRUE)
    ELSE IF upload = "encrypted" /\ form.pdf_password # "right"
    THEN Rejected("ValueError", "Password PDF non valida.", <<"list_printers">>, TRUE)
    ELSE [exc |-> None, error |-> None, ran |-> <<"list_printers">>, popped |-> TRUE,
          message |-> IF upload = "encrypted" THEN MsgDecrypted ELSE MsgQueued]

\* An accepted submission: a form that passes every check and a listing that
\* offers its printer.
ValidForm ==
    [valid_id |-> TRUE, color_mode |-> "bw", copies |-> 1, printer |-> "p1",
     pdf_password |-> "right"]
ListingOfForm == [ok |-> TRUE, printers |-> {"p1"}]

\* No request was answered yet; print_file was not called directly.
NoResponse == [handler |-> None, shown |-> {}, error |-> None, message |-> None,
               ran |-> << >>]
NoCall == [pc |-> "idle"]
\* No request is in flight; nothing was uploaded in chunks.
NoRequest == [pc |-> "idle"]
NoFiles == [part |-> Nothing, final |-> Nothing]

\* Nothing is stored, nothing runs, no request was answered.
InitJobs ==
    /\ heap = << >>
    /\ _jobs = << >>
    /\ files = {}
    /\ queue = << >>
    /\ sub_pc = [j \in JobIds |-> "idle"]
    /\ seen = [j \in JobIds |-> None]
    /\ pc = [j \in JobIds |-> "none"]
    /\ snapshot = [j \in JobIds |-> NoRef]
    /\ current = [j \in JobIds |-> NoRef]
    /\ request_id = [j \in JobIds |-> None]
    /\ attempt = [j \in JobIds |-> 0]
    /\ outcome = [j \in JobIds |-> NoOutcome]
    /\ faults = 0
    /\ caller = [c \in Callers |-> NoRef]
    /\ response = NoResponse
    /\ call = NoCall
    /\ executor = "running"
    /\ requests = [r \in Requests |-> NoRequest]

\* The module globals right after import: no job, no upload.
InitStore ==
    /\ InitJobs
    /\ _uploads = [u \in UploadIds |-> Nothing]
    /\ disk = [u \in UploadIds |-> NoFiles]

\* The application has started with a backend and the user has staged a
\* complete, readable document for every submission to come.
Init ==
    /\ InitStore
    /\ backend \in {"cups", "sumatra"}
    /\ backend_boot_error = None
    /\ uploads = [u \in JobIds |-> "completed"]

\* RuntimeError of executor.submit once the executor was shut down.
MsgAfterShutdown == "cannot schedule new futures after shutdown"

\* create_job, lines 264-283: build the PrintJob, jobs.create, executor.submit;
\* submit raises once the executor was shut down, after the record was stored.
\* `try` is how the try block went up to there.
store_job(j, try) ==
    /\ LET h == (JobRef(j) :> PrintJob(j, try.message)) @@ heap
       IN  /\ heap' = h
           /\ _jobs' = JobRegistry_create(h, _jobs, JobRef(j))
    /\ response' = IF executor = "running"
                   THEN [handler |-> "create_job", shown |-> {j},
                         error |-> None, message |-> None, ran |-> try.ran]
                   ELSE [handler |-> "create_job", shown |-> {},
                         error |-> MsgAfterShutdown, message |-> None,
                         ran |-> try.ran]
    /\ files' = files \cup {j}
    /\ IF executor = "running"
       THEN /\ queue' = Append(queue, j)
            /\ pc' = [pc EXCEPT ![j] = "pending"]
            /\ sub_pc' = [sub_pc EXCEPT ![j] = "render"]
       ELSE /\ sub_pc' = [sub_pc EXCEPT ![j] = "returned"]
            /\ UNCHANGED <<queue, pc>>

\* create_job for an accepted submission, lines 251-283, as one step.
create_job(j) ==
    /\ sub_pc[j] = "idle"
    /\ IF j = 1 THEN TRUE ELSE sub_pc[j - 1] # "idle"
    /\ backend \in {"cups", "sumatra"}
    /\ LET try == create_job_try(uploads[j], ValidForm, ListingOfForm)
       IN  /\ try.exc = None
           /\ store_job(j, try)
    /\ uploads' = [uploads EXCEPT ![j] = "absent"]
    /\ UNCHANGED <<backend_boot_error, call, executor, backend, seen, snapshot,
                   current, request_id, attempt, outcome, faults, caller, upload_vars>>

\* create_job, line 283: _render_job reads the fields of `job` one by one,
\* without the registry's lock. First read: status.
render_status(j) ==
    /\ sub_pc[j] = "render"
    /\ seen' = [seen EXCEPT ![j] = heap[JobRef(j)].status]
    /\ sub_pc' = [sub_pc EXCEPT ![j] = "render_rest"]
    /\ UNCHANGED <<handler_vars, backend, heap, _jobs, files, queue, pc, snapshot, current,
                   request_id, attempt, outcome, faults, caller>>

\* create_job, line 283: the remaining reads, and the response is returned.
render_rest(j) ==
    /\ sub_pc[j] = "render_rest"
    /\ seen' = [seen EXCEPT ![j] = None]
    /\ sub_pc' = [sub_pc EXCEPT ![j] = "returned"]
    /\ UNCHANGED <<handler_vars, backend, heap, _jobs, files, queue, pc, snapshot, current,
                   request_id, attempt, outcome, faults, caller>>

\* The stored file disappears from UPLOAD_DIR while the job waits for a worker
\* (the same upload id staged again and deleted: delete_uploaded_file unlinks
\* UPLOAD_DIR/<id>_<name>, the path the job holds).
stored_file_removed(j) ==
    /\ j \in files
    /\ pc[j] = "pending"
    /\ faults < MaxFaults
    /\ faults' = faults + 1
    /\ files' = files \ {j}
    /\ UNCHANGED <<handler_vars, backend, heap, _jobs, queue, sub_pc, seen, pc, snapshot,
                   current, request_id, attempt, outcome, caller>>

\* A worker takes the job from the queue; process_print_job lines 420-433.
process_print_job_begin(j) ==
    /\ pc[j] = "pending"
    /\ queue # << >> /\ Head(queue) = j
    /\ Cardinality(Running) < max_workers
    /\ queue' = Tail(queue)
    /\ LET g == JobRegistry_get(heap, _jobs, j, SnapshotRef(j))
       IN  IF g.ref = NoRef
           THEN /\ pc' = [pc EXCEPT ![j] = "done"]
                /\ UNCHANGED <<heap, snapshot>>
           ELSE IF backend = "none"
           THEN /\ heap' = Release(update_(g.heap, _jobs, j,
                                [status |-> "failed", progress |-> 100,
                                 message |-> "Backend non disponibile.",
                                 error |-> "Configura un backend di stampa valido."]),
                                {SnapshotRef(j)})
                /\ pc' = [pc EXCEPT ![j] = "done"]
                /\ UNCHANGED snapshot
           ELSE /\ heap' = update_(g.heap, _jobs, j, PreparingChanges)
                /\ snapshot' = [snapshot EXCEPT ![j] = g.ref]
                /\ pc' = [pc EXCEPT ![j] = "print_file"]
    /\ UNCHANGED <<handler_vars, backend, _jobs, files, sub_pc, seen, current, request_id,
                   attempt, outcome, faults, caller>>

\* print_file up to the first progress report:
\* CupsPrinterBackend.print_file lines 136-158, Sumatra lines 486-511.
print_file(j) ==
    /\ pc[j] = "print_file"
    /\ IF j \notin files
       THEN /\ outcome' = [outcome EXCEPT ![j] =
                   Raised("PrintBackendError", "Il file da stampare non esiste.")]
            /\ pc' = [pc EXCEPT ![j] = "raised"]
            /\ UNCHANGED heap
       ELSE /\ heap' = update_(heap, _jobs, j,
                   IF backend = "cups"
                   THEN ProgressChanges(40, "Invio del documento alla coda locale.")
                   ELSE ProgressChanges(45, "Invio del documento al sistema di stampa Windows."))
            /\ pc' = [pc EXCEPT ![j] = "submit"]
            /\ UNCHANGED outcome
    /\ UNCHANGED <<handler_vars, backend, _jobs, files, queue, sub_pc, seen, snapshot, current,
                   request_id, attempt, faults, caller>>

\* CupsPrinterBackend.print_file lines 159-175: run lp, extract the request id.
cups_submit(j) ==
    /\ pc[j] = "submit"
    /\ backend = "cups"
    /\ \E result \in {"nonzero", "no id", "id"} :
         /\ result # "id" => faults < MaxFaults
         /\ faults' = IF result # "id" THEN faults + 1 ELSE faults
         /\ CASE result = "nonzero" ->
                /\ outcome' = [outcome EXCEPT ![j] =
                       Raised("PrintBackendError", "Comando lp fallito: errore sconosciuto")]
                /\ pc' = [pc EXCEPT ![j] = "raised"]
                /\ UNCHANGED <<heap, request_id, attempt>>
           [] result = "no id" ->
                /\ heap' = update_(heap, _jobs, j, ProgressChanges(85, "Documento accodato."))
                /\ outcome' = [outcome EXCEPT ![j] = print_file_return(None)]
                /\ pc' = [pc EXCEPT ![j] = "returned"]
                /\ UNCHANGED <<request_id, attempt>>
           [] result = "id" ->
                /\ heap' = update_(heap, _jobs, j,
                       ProgressChanges(65, "Job 123 accodato, controllo avanzamento."))
                /\ request_id' = [request_id EXCEPT ![j] = "123"]
                /\ attempt' = [attempt EXCEPT ![j] = 1]
                /\ pc' = [pc EXCEPT ![j] = "poll"]
                /\ UNCHANGED outcome
    /\ UNCHANGED <<handler_vars, backend, _jobs, files, queue, sub_pc, seen, snapshot, current,
                   caller>>

\* CupsPrinterBackend._wait_for_release lines 264-277: one pass of the loop.
wait_for_release(j) ==
    /\ pc[j] = "poll"
    /\ \E result \in {"nonzero", "released", "listed"} :
         /\ result = "nonzero" => faults < MaxFaults
         /\ faults' = IF result = "nonzero" THEN faults + 1 ELSE faults
         /\ CASE result = "nonzero" ->
                /\ outcome' = [outcome EXCEPT ![j] = print_file_return(request_id[j])]
                /\ pc' = [pc EXCEPT ![j] = "returned"]
                /\ UNCHANGED <<heap, attempt>>
           [] result = "released" ->
                /\ heap' = update_(heap, _jobs, j,
                       ProgressChanges(92, "La coda ha accettato il job."))
                /\ outcome' = [outcome EXCEPT ![j] = print_file_return(request_id[j])]
                /\ pc' = [pc EXCEPT ![j] = "returned"]
                /\ UNCHANGED attempt
           [] result = "listed" ->
                /\ heap' = update_(heap, _jobs, j,
                       ProgressChanges(PollProgress(attempt[j]), "Job ancora in coda locale."))
                /\ IF attempt[j] = MaxAttempts
                   THEN /\ outcome' = [outcome EXCEPT ![j] = print_file_return(request_id[j])]
                        /\ pc' = [pc EXCEPT ![j] = "returned"]
                        /\ UNCHANGED attempt
                   ELSE /\ attempt' = [attempt EXCEPT ![j] = @ + 1]
                        /\ UNCHANGED <<outcome, pc>>
    /\ UNCHANGED <<handler_vars, backend, _jobs, files, queue, sub_pc, seen, snapshot, current,
                   request_id, caller>>

\* SumatraPrinterBackend.print_file lines 512-526: run SumatraPDF (timeout=180).
sumatra_submit(j) ==
    /\ pc[j] = "submit"
    /\ backend = "sumatra"
    /\ \E result \in {"nonzero", "timeout", "zero"} :
         /\ result # "zero" => faults < MaxFaults
         /\ faults' = IF result # "zero" THEN faults + 1 ELSE faults
         /\ CASE result = "nonzero" ->
                /\ outcome' = [outcome EXCEPT ![j] =
                       Raised("PrintBackendError",
                              "SumatraPDF ha fallito la stampa: errore sconosciuto")]
                /\ pc' = [pc EXCEPT ![j] = "raised"]
                /\ UNCHANGED heap
           [] result = "timeout" ->
                /\ outcome' = [outcome EXCEPT ![j] =
                       Raised("TimeoutExpired", "Command timed out after 180 seconds")]
                /\ pc' = [pc EXCEPT ![j] = "raised"]
                /\ UNCHANGED heap
           [] result = "zero" ->
                /\ heap' = update_(heap, _jobs, j,
                       ProgressChanges(90, "Documento inviato al servizio spooler."))
                /\ outcome' = [outcome EXCEPT ![j] = Returned(None)]
                /\ pc' = [pc EXCEPT ![j] = "returned"]
    /\ UNCHANGED <<handler_vars, backend, _jobs, files, queue, sub_pc, seen, snapshot, current,
                   request_id, attempt, caller>>

\* process_print_job lines 456-463: print_file returned.
process_print_job_completed(j) ==
    /\ pc[j] = "returned"
    /\ heap' = update_(heap, _jobs, j, CompletedChanges(outcome[j].value))
    /\ pc' = [pc EXCEPT ![j] = "finally"]
    /\ UNCHANGED <<handler_vars, backend, _jobs, files, queue, sub_pc, seen, snapshot, current,
                   request_id, attempt, outcome, faults, caller>>

\* process_print_job lines 464-471: print_file raised.
process_print_job_failed(j) ==
    /\ pc[j] = "raised"
    /\ heap' = IF handles(outcome[j].exc)
               THEN update_(heap, _jobs, j, FailedChanges(outcome[j].text))
               ELSE heap
    /\ pc' = [pc EXCEPT ![j] = "finally"]
    /\ UNCHANGED <<handler_vars, backend, _jobs, files, queue, sub_pc, seen, snapshot, current,
                   request_id, attempt, outcome, faults, caller>>

\* process_print_job line 473: current = jobs.get(job_id).
process_print_job_finally(j) ==
    /\ pc[j] = "finally"
    /\ LET g == JobRegistry_get(heap, _jobs, j, CurrentRef(j))
       IN  /\ heap' = g.heap
           /\ current' = [current EXCEPT ![j] = g.ref]
    /\ pc' = [pc EXCEPT ![j] = "unlink"]
    /\ UNCHANGED <<handler_vars, backend, _jobs, files, queue, sub_pc, seen, snapshot,
                   request_id, attempt, outcome, faults, caller>>

\* A mutation: except OSError: pass.
process_print_job_unlink_silent(j) ==
    /\ pc[j] = "unlink"
    /\ \E oserror \in BOOLEAN :
         /\ LET locals == {snapshot[j], current[j]} \ {NoRef, lookup(_jobs, j)}
                exists == current[j] # NoRef /\ j \in files
            IN  /\ oserror => exists
                /\ heap' = Release(heap, locals)
                /\ files' = IF exists /\ ~oserror THEN files \ {j} ELSE files
    /\ snapshot' = [snapshot EXCEPT ![j] = NoRef]
    /\ current' = [current EXCEPT ![j] = NoRef]
    /\ request_id' = [request_id EXCEPT ![j] = None]
    /\ attempt' = [attempt EXCEPT ![j] = 0]
    /\ pc' = [pc EXCEPT ![j] = "done"]
    /\ UNCHANGED <<handler_vars, backend, _jobs, queue, sub_pc, seen, outcome, faults, caller>>

\* process_print_job lines 474-481: delete the file, report a failed deletion;
\* the function returns and its locals are dropped.
process_print_job_unlink(j) ==
    /\ pc[j] = "unlink"
    /\ \E oserror \in BOOLEAN :
         /\ LET locals == {snapshot[j], current[j]} \ {NoRef, lookup(_jobs, j)}
                exists == current[j] # NoRef /\ j \in files
            IN  /\ oserror => exists
                /\ heap' = IF exists /\ oserror
                           THEN Release(update_(heap, _jobs, j, CleanupChanges), locals)
                           ELSE Release(heap, locals)
                /\ files' = IF exists /\ ~oserror THEN files \ {j} ELSE files
    /\ snapshot' = [snapshot EXCEPT ![j] = NoRef]
    /\ current' = [current EXCEPT ![j] = NoRef]
    /\ request_id' = [request_id EXCEPT ![j] = None]
    /\ attempt' = [attempt EXCEPT ![j] = 0]
    /\ pc' = [pc EXCEPT ![j] = "done"]
    /\ UNCHANGED <<handler_vars, backend, _jobs, queue, sub_pc, seen, outcome, faults, caller>>

Worker(j) ==
    \/ process_print_job_begin(j)
    \/ print_file(j)
    \/ cups_submit(j)
    \/ wait_for_release(j)
    \/ sumatra_submit(j)
    \/ process_print_job_completed(j)
    \/ process_print_job_failed(j)
    \/ process_print_job_finally(j)
    \/ process_print_job_unlink(j)

Pipeline(j) ==
    \/ create_job(j)
    \/ stored_file_removed(j)
    \/ Worker(j)

\* The job store and the pipeline.
Next == \E j \in JobIds : Pipeline(j)

Spec == Init /\ [][Next]_vars

\* A ThreadPoolExecutor worker that has a task runs it to its end.
Fairness == \A j \in JobIds : WF_vars(Worker(j))

FairSpec == Spec /\ Fairness

\* A mutation: shutdown(wait=False), the queued tasks are kept and run.
shutdown_executor_keep_futures ==
    /\ executor = "running"
    /\ executor' = "shutdown"
    /\ UNCHANGED <<heap, _jobs, caller, pipeline_vars, backend_boot_error, uploads,
                   response, call, upload_vars>>

\* shutdown_executor: executor.shutdown(wait=False, cancel_futures=True) takes
\* every task that no thread has taken out of the work queue and cancels it;
\* the tasks the threads are running go on.
shutdown_executor ==
    /\ executor = "running"
    /\ executor' = "shutdown"
    /\ queue' = << >>
    /\ pc' = [j \in JobIds |-> IF pc[j] = "pending" THEN "cancelled" ELSE pc[j]]
    /\ UNCHANGED <<heap, _jobs, caller, backend, files, sub_pc, seen, snapshot,
                   current, request_id, attempt, outcome, faults, backend_boot_error,
                   uploads, response, call, upload_vars>>

NextShutdown ==
    \/ Next
    \/ shutdown_executor

\* The job store and the pipeline of an application that is shut down at
\* some time, with workers that run the task they have to its end.
SpecShutdown == Init /\ [][NextShutdown]_vars /\ Fairness

\* The store, the pipeline and the responses of create_job, one request at a time.
AllResponded == \A i \in JobIds : sub_pc[i] \in {"idle", "returned"}

NextResponse ==
    \E j \in JobIds :
        \/ create_job(j) /\ AllResponded
        \/ render_status(j)
        \/ render_rest(j)
        \/ stored_file_removed(j)
        \/ Worker(j)

SpecResponse == Init /\ [][NextResponse]_vars

\* ---------------------------------------------- users of the registry
\* What a direct caller writes with update, and what it assigns to the fields
\* of a snapshot it was handed.
RegistryChanges == {CompletedChanges("123")}
CallerChanges == {[status |-> "failed", progress |-> 0]}

\* job = jobs.get(job_id), as in job_status: the caller keeps what get returned.
registry_get(c, j) ==
    /\ LET result == JobRegistry_get(heap, _jobs, j, CallerRef(c))
       IN  /\ caller' = [caller EXCEPT ![c] = result.ref]
           /\ heap' = IF result.ref = NoRef
                      THEN Release(result.heap, {CallerRef(c)})
                      ELSE result.heap
    /\ UNCHANGED <<_jobs, pipeline_vars, handler_vars>>

\* job = jobs.update(job_id, **changes): the caller keeps what update returned.
registry_update(c, j) ==
    /\ \E changes \in RegistryChanges :
         LET result == JobRegistry_update(heap, _jobs, j, changes, CallerRef(c))
         IN  /\ caller' = [caller EXCEPT ![c] = result.ref]
             /\ heap' = IF result.ref = NoRef
                        THEN Release(result.heap, {CallerRef(c)})
                        ELSE result.heap
    /\ UNCHANGED <<_jobs, pipeline_vars, handler_vars>>

\* The caller assigns fields of the PrintJob it holds (the dataclass is not
\* frozen).
caller_setattr(c) ==
    /\ caller[c] # NoRef
    /\ \E changes \in CallerChanges :
         heap' = [heap EXCEPT ![caller[c]] = setattrs(@, changes)]
    /\ UNCHANGED <<_jobs, caller, pipeline_vars, handler_vars>>

NextRegistry ==
    \/ \E j \in JobIds : create_job(j)
    \/ \E c \in Callers, j \in JobIds : registry_get(c, j)
    \/ \E c \in Callers, j \in JobIds : registry_update(c, j)
    \/ \E c \in Callers : caller_setattr(c)

\* The job store used through its three methods by concurrent callers.
SpecRegistry == Init /\ [][NextRegistry]_vars

\* ------------------------------------------------------ build_backend
MsgNoCups == "Comandi CUPS non trovati: servono 'lp' e 'lpstat'."
MsgNoSumatra ==
    "Su Windows e richiesto SumatraPDF. Imposta SUMATRA_PDF_PATH o installa SumatraPDF."
MsgNoBackend ==
    "Nessun backend disponibile. Installa CUPS (lp/lpstat) oppure usa Windows con SumatraPDF."

\* CupsPrinterBackend.__init__, given what shutil.which finds.
CupsPrinterBackend_init(lp, lpstat) ==
    IF ~lp \/ ~lpstat THEN Raised("PrintBackendError", MsgNoCups)
    ELSE Returned("cups")

\* SumatraPrinterBackend.__init__, given what _find_sumatra finds.
SumatraPrinterBackend_init(sumatra) ==
    IF ~sumatra THEN Raised("PrintBackendError", MsgNoSumatra)
    ELSE Returned("sumatra")

\* return Backend(), None / except PrintBackendError as exc: return None, str(exc)
try_backend(constructed) ==
    IF constructed.kind = "returned"
    THEN [backend |-> constructed.value, error |-> None]
    ELSE [backend |-> "none", error |-> constructed.text]

\* A mutation: the host is looked at first.
build_backend_host_first(lp, lpstat, nt, sumatra) ==
    IF nt THEN try_backend(SumatraPrinterBackend_init(sumatra))
    ELSE IF lp /\ lpstat THEN try_backend(CupsPrinterBackend_init(lp, lpstat))
    ELSE [backend |-> "none", error |-> MsgNoBackend]

build_backend(lp, lpstat, nt, sumatra) ==
    IF lp /\ lpstat THEN try_backend(CupsPrinterBackend_init(lp, lpstat))
    ELSE IF nt THEN try_backend(SumatraPrinterBackend_init(sumatra))
    ELSE [backend |-> "none", error |-> MsgNoBackend]

\* app.py line 168, at import: printer_backend, backend_boot_error = build_backend()
boot(lp, lpstat, nt, sumatra) ==
    /\ backend = "unbuilt"
    /\ LET built == build_backend(lp, lpstat, nt, sumatra)
       IN  /\ backend' = built.backend
           /\ backend_boot_error' = built.error
    /\ UNCHANGED <<heap, _jobs, files, queue, sub_pc, seen, pc, snapshot, current,
                   request_id, attempt, outcome, faults, caller, uploads, response,
                   call, executor, upload_vars>>

\* --------------------------------------------------- request handlers
\* create_job when it stores nothing: lines 242-249 without a backend, and
\* the try block ending in an exception, lines 285-295.
create_job_refused(u) ==
    /\ backend # "unbuilt"
    /\ \E form \in Forms, listing \in Listings :
         IF backend = "none"
         THEN /\ response' = [handler |-> "create_job", shown |-> {error_job_id},
                              error |-> IF backend_boot_error # None
                                        THEN backend_boot_error
                                        ELSE "Configura CUPS o SumatraPDF e riavvia l'applicazione.",
                              message |-> MsgNoBackendJob, ran |-> << >>]
              /\ UNCHANGED uploads
         ELSE LET try == create_job_try(uploads[u], form, listing)
              IN  /\ try.exc # None
                  /\ response' = [handler |-> "create_job",
                                  shown |-> IF try.exc = "HTTPException" THEN {}
                                            ELSE {error_job_id},
                                  error |-> try.error, message |-> try.message,
                                  ran |-> try.ran]
                  /\ uploads' = IF try.popped THEN [uploads EXCEPT ![u] = "absent"]
                                ELSE uploads
    /\ UNCHANGED <<heap, _jobs, caller, pipeline_vars, upload_vars, executor,
                   backend_boot_error, call>>

\* index, lines 178-200.
index ==
    /\ backend # "unbuilt"
    /\ \E listing \in Listings :
         response' =
            IF backend = "none"
            THEN [handler |-> "index", shown |-> {}, error |-> backend_boot_error,
                  message |-> None, ran |-> << >>]
            ELSE IF ~listing.ok
            THEN [handler |-> "index", shown |-> {}, error |-> MsgListing,
                  message |-> None, ran |-> <<"list_printers">>]
            ELSE [handler |-> "index", shown |-> {}, error |-> backend_boot_error,
                  message |-> None, ran |-> <<"list_printers", "default_printer">>]
    /\ UNCHANGED <<heap, _jobs, caller, pipeline_vars, upload_vars, executor,
                   backend_boot_error, uploads, call>>

\* get_status of a printer whose state cannot be read.
MsgStatus == "Impossibile leggere lo stato della stampante 'p1': errore."

\* A mutation: the default printer is asked for without looking for a backend.
_resolve_printer_name_any_backend(printer, default, listing) ==
    IF printer # "" THEN [name |-> printer, ran |-> << >>]
    ELSE IF default # None THEN [name |-> default, ran |-> <<"default_printer">>]
    ELSE IF ~listing.ok \/ listing.printers = {}
    THEN [name |-> None, ran |-> <<"default_printer", "list_printers">>]
    ELSE [name |-> "p1", ran |-> <<"default_printer", "list_printers">>]

\* _resolve_printer_name: the printer the status is asked for, and the backend
\* operations run to find it.
_resolve_printer_name(printer, default, listing) ==
    IF printer # "" THEN [name |-> printer, ran |-> << >>]
    ELSE IF backend = "none" THEN [name |-> None, ran |-> << >>]
    ELSE IF default # None THEN [name |-> default, ran |-> <<"default_printer">>]
    ELSE IF ~listing.ok \/ listing.printers = {}
    THEN [name |-> None, ran |-> <<"default_printer", "list_printers">>]
    ELSE [name |-> "p1", ran |-> <<"default_printer", "list_printers">>]

\* printer_status, lines 204-228.
printer_status ==
    /\ backend # "unbuilt"
    /\ \E printer \in {"", "p1"}, default \in {None, "p1"}, listing \in Listings,
          status_ok \in BOOLEAN :
         LET selected == _resolve_printer_name(printer, default, listing)
         IN  response' =
                IF backend = "none"
                THEN [handler |-> "printer_status", shown |-> {},
                      error |-> IF backend_boot_error # None THEN backend_boot_error
                                ELSE MsgNoBackendJob,
                      message |-> None, ran |-> selected.ran]
                ELSE IF selected.name = None
                THEN [handler |-> "printer_status", shown |-> {},
                      error |-> "Nessuna stampante disponibile.",
                      message |-> None, ran |-> selected.ran]
                ELSE [handler |-> "printer_status", shown |-> {},
                      error |-> IF status_ok THEN None ELSE MsgStatus,
                      message |-> None, ran |-> selected.ran \o <<"get_status">>]
    /\ UNCHANGED <<heap, _jobs, caller, pipeline_vars, upload_vars, executor,
                   backend_boot_error, uploads, call>>

\* The application is not started yet; uploads of one kind are staged.
InitRequests ==
    /\ InitStore
    /\ backend = "unbuilt"
    /\ backend_boot_error = None
    /\ \E state \in UploadStates : uploads = [u \in JobIds |-> state]

NextRequests ==
    \/ \E lp, lpstat, nt, sumatra \in BOOLEAN : boot(lp, lpstat, nt, sumatra)
    \/ \E j \in JobIds : create_job(j)
    \/ \E u \in JobIds : create_job_refused(u)
    \/ index
    \/ printer_status

\* The application from its start, answering requests.
SpecRequests == InitRequests /\ [][NextRequests]_vars

\* ------------------------------- create_job requests at the same time
\* A mutation: the entry is read and left in the registry.
UploadRegistry_pop_kept(ups, upload_id) ==
    [uploads |-> ups, entry |-> ups[upload_id]]

\* UploadRegistry.pop, under the lock: the registry without the entry, and
\* the entry ("absent" when there was none).
UploadRegistry_pop(ups, upload_id) ==
    [uploads |-> [ups EXCEPT ![upload_id] = "absent"], entry |-> ups[upload_id]]

\* create_job up to uploads.pop (line 253, _consume_uploaded_file line 602),
\* in the thread of request r.
create_job_pop(r, u) ==
    /\ requests[r].pc = "idle"
    /\ backend \in {"cups", "sumatra"}
    /\ LET popped == UploadRegistry_pop(uploads, u)
       IN  /\ uploads' = popped.uploads
           /\ requests' = [requests EXCEPT ![r] =
                  [pc |-> "popped", handler |-> "create_job", upload |-> u,
                   entry |-> popped.entry]]
    /\ UNCHANGED <<heap, _jobs, caller, pipeline_vars, _uploads, disk, executor,
                   backend_boot_error, response, call>>

\* The rest of create_job in the thread of request r, lines 603-295, with
\* the entry it was handed.
create_job_rest(r) ==
    /\ requests[r].pc = "popped"
    /\ requests[r].handler = "create_job"
    /\ \E form \in Forms, listing \in Listings :
         LET try == create_job_try(requests[r].entry, form, listing)
         IN  /\ form.valid_id
             /\ IF try.exc = None
                THEN \E j \in JobIds :
                       /\ sub_pc[j] = "idle"
                       /\ IF j = 1 THEN TRUE ELSE sub_pc[j - 1] # "idle"
                       /\ store_job(j, try)
                       /\ requests' = [requests EXCEPT ![r] =
                              [pc |-> "done", handler |-> "create_job",
                               upload |-> requests[r].upload,
                               entry |-> requests[r].entry,
                               job |-> Some(j), error |-> None]]
                ELSE /\ response' = [handler |-> "create_job",
                                     shown |-> {error_job_id}, error |-> try.error,
                                     message |-> try.message, ran |-> try.ran]
                     /\ requests' = [requests EXCEPT ![r] =
                            [pc |-> "done", handler |-> "create_job",
                             upload |-> requests[r].upload,
                             entry |-> requests[r].entry,
                             job |-> Nothing, error |-> try.error]]
                     /\ UNCHANGED <<heap, _jobs, files, queue, pc, sub_pc>>
    /\ UNCHANGED <<backend_boot_error, call, executor, backend, seen, snapshot,
                   current, request_id, attempt, outcome, faults, caller, uploads,
                   _uploads, disk>>

\* The application has a backend; uploads of one kind are staged.
InitConsume ==
    /\ InitStore
    /\ backend \in {"cups", "sumatra"}
    /\ backend_boot_error = None
    /\ \E state \in UploadStates : uploads = [u \in JobIds |-> state]

NextConsume ==
    \/ \E r \in Requests, u \in JobIds : create_job_pop(r, u)
    \/ \E r \in Requests : create_job_rest(r)

\* create_job requests handled by threads at the same time.
SpecConsume == InitConsume /\ [][NextConsume]_vars

\* ------------------------------------------------ chunked uploads

\* Form fields of the requests: an identifier that does not match
\* UPLOAD_ID_PATTERN next to the ones that do, an empty file name next to a
\* plain one, and indexes and totals around the limits.
ChunkIndexes == -1 .. MaxChunks
TotalChunks == (0 .. MaxChunks) \cup {MaxTotalChunks, MaxTotalChunks + 1}
\* The forms of upload_chunk. A bad identifier or file name is refused
\* before the other fields are looked at: those come with one index and total.
ChunkForms ==
    {f \in [upload_id : UploadIds \cup {"../id"}, chunk_index : ChunkIndexes,
            total_chunks : TotalChunks, original_name : {"doc.pdf", ""}] :
        (f.upload_id \notin UploadIds \/ f.original_name = "")
            => (f.chunk_index = 0 /\ f.total_chunks = 1)}

\* A new UploadedFileEntry with the defaults of the dataclass. `object` is
\* the identity of the Python object: the request that made it.
UploadedFileEntry(total_chunks, object) ==
    [total_chunks |-> total_chunks, next_chunk_index |-> 0, uploaded_bytes |-> 0,
     stored_path |-> None, completed |-> FALSE, object |-> object]

\* The bytes of a file, as the sequence of the chunk indexes written to it;
\* each chunk is one byte long.
Content(file) == IF file = Nothing THEN << >> ELSE file[1]

\* The bytes of the chunks 0 .. n-1 in order.
Chunks(n) == [k \in 1 .. n |-> k - 1]

\* UploadRegistry.update: setattr of the changes on the stored entry; nothing
\* when there is no entry.
UploadRegistry_update(ups, upload_id, changes) ==
    IF ups[upload_id] = Nothing
    THEN ups
    ELSE [ups EXCEPT ![upload_id] = Some(changes @@ ups[upload_id][1])]

\* An HTTPException of upload_chunk raised before the chunk is read.
Refused(status, detail, ups, dir) ==
    [status |-> status, detail |-> detail, _uploads |-> ups, disk |-> dir,
     entry |-> Nothing]

\* A mutation: the sequence check is left out.
upload_chunk_checks_any_index(ups, dir, upload_id, chunk_index, total_chunks, original_name, object) ==
    IF upload_id \notin UploadIds
    THEN Refused(400, "Upload ID non valido.", ups, dir)
    ELSE IF original_name = ""
    THEN Refused(400, "Nome file non valido.", ups, dir)
    ELSE IF total_chunks < 1 \/ total_chunks > MaxTotalChunks
    THEN Refused(400, "Numero chunk non valido.", ups, dir)
    ELSE IF chunk_index < 0
    THEN Refused(400, "Indice chunk non valido.", ups, dir)
    ELSE
    LET fresh_entry == UploadedFileEntry(total_chunks, object)
        registry == IF chunk_index = 0
                    THEN [ups EXCEPT ![upload_id] = Some(fresh_entry)]
                    ELSE ups
        on_disk == IF chunk_index = 0
                   THEN [dir EXCEPT ![upload_id].part = Nothing]
                   ELSE dir
        entry == IF chunk_index = 0 THEN Some(fresh_entry) ELSE ups[upload_id]
    IN  IF entry = Nothing
        THEN Refused(404, "Upload non inizializzato.", registry, on_disk)
        ELSE IF entry[1].completed
        THEN Refused(409, "Upload gia completato.", registry, on_disk)
        ELSE IF entry[1].total_chunks # total_chunks
        THEN Refused(409, "Numero chunk incoerente.", registry, on_disk)
        ELSE [status |-> 200, detail |-> None, _uploads |-> registry,
              disk |-> on_disk, entry |-> entry]

\* upload_chunk, lines 308-335: the validation of the fields, uploads.get,
\* the restart on index 0 (the part file removed, a fresh entry stored), and
\* the four checks of the entry. The result is the answer so far, the
\* registry, the files, and the entry the handler holds.
upload_chunk_checks(ups, dir, upload_id, chunk_index, total_chunks, original_name, object) ==
    IF upload_id \notin UploadIds
    THEN Refused(400, "Upload ID non valido.", ups, dir)
    ELSE IF original_name = ""
    THEN Refused(400, "Nome file non valido.", ups, dir)
    ELSE IF total_chunks < 1 \/ total_chunks > MaxTotalChunks
    THEN Refused(400, "Numero chunk non valido.", ups, dir)
    ELSE IF chunk_index < 0
    THEN Refused(400, "Indice chunk non valido.", ups, dir)
    ELSE
    LET fresh_entry == UploadedFileEntry(total_chunks, object)
        registry == IF chunk_index = 0
                    THEN [ups EXCEPT ![upload_id] = Some(fresh_entry)]
                    ELSE ups
        on_disk == IF chunk_index = 0
                   THEN [dir EXCEPT ![upload_id].part = Nothing]
                   ELSE dir
        entry == IF chunk_index = 0 THEN Some(fresh_entry) ELSE ups[upload_id]
    IN  IF entry = Nothing
        THEN Refused(404, "Upload non inizializzato.", registry, on_disk)
        ELSE IF entry[1].completed
        THEN Refused(409, "Upload gia completato.", registry, on_disk)
        ELSE IF entry[1].total_chunks # total_chunks
        THEN Refused(409, "Numero chunk incoerente.", registry, on_disk)
        ELSE IF entry[1].next_chunk_index # chunk_index
        THEN Refused(409, "Chunk fuori sequenza.", registry, on_disk)
        ELSE [status |-> 200, detail |-> None, _uploads |-> registry,
              disk |-> on_disk, entry |-> entry]

\* upload_chunk, lines 338-376, after the chunk was read: the write to the
\* part file ("wb" on index 0, "ab" otherwise), and either the move to the
\* final path and the update that completes the entry, or the update of
\* the counters alone. `entry` is the entry the handler holds.
upload_chunk_store(ups, dir, upload_id, entry, chunk_index, total_chunks) ==
    LET written == IF chunk_index = 0
                   THEN <<chunk_index>>
                   ELSE Append(Content(dir[upload_id].part), chunk_index)
        uploaded_bytes == entry.uploaded_bytes + 1
        is_last == chunk_index + 1 >= total_chunks
    IN  IF is_last
        THEN [disk |-> [dir EXCEPT ![upload_id] =
                           [part |-> Nothing, final |-> Some(written)]],
              _uploads |-> UploadRegistry_update(ups, upload_id,
                              [next_chunk_index |-> chunk_index + 1,
                               uploaded_bytes |-> uploaded_bytes,
                               stored_path |-> "final", completed |-> TRUE]),
              completed |-> TRUE]
        ELSE [disk |-> [dir EXCEPT ![upload_id].part = Some(written)],
              _uploads |-> UploadRegistry_update(ups, upload_id,
                              [next_chunk_index |-> chunk_index + 1,
                               uploaded_bytes |-> uploaded_bytes]),
              completed |-> FALSE]

\* The answer of upload_chunk: the JSON body or the HTTPException.
ChunkResponse(upload_id, chunk_index, total_chunks, original_name, status, detail, completed) ==
    [handler |-> "upload_chunk", upload |-> upload_id,
     chunk_index |-> chunk_index, total_chunks |-> total_chunks,
     original_name |-> original_name,
     status |-> status, detail |-> detail, completed |-> completed]

\* POST /uploads/chunk, lines 298-382, with no other request in between.
upload_chunk(upload_id, chunk_index, total_chunks, original_name) ==
    /\ LET checked == upload_chunk_checks(_uploads, disk, upload_id, chunk_index,
                                           total_chunks, original_name, 0)
           stored == upload_chunk_store(checked._uploads, checked.disk, upload_id,
                                        checked.entry[1], chunk_index, total_chunks)
       IN  IF checked.detail = None
           THEN /\ _uploads' = stored._uploads
                /\ disk' = stored.disk
                /\ response' = ChunkResponse(upload_id, chunk_index, total_chunks,
                                             original_name, 200, None,
                                             stored.completed)
           ELSE /\ _uploads' = checked._uploads
                /\ disk' = checked.disk
                /\ response' = ChunkResponse(upload_id, chunk_index, total_chunks,
                                             original_name, checked.status,
                                             checked.detail, FALSE)
    /\ UNCHANGED <<heap, _jobs, caller, pipeline_vars, executor, backend_boot_error,
                   uploads, call, requests>>

\* DELETE /uploads/{upload_id}, lines 385-394.
delete_uploaded_file(upload_id) ==
    /\ IF upload_id \notin UploadIds
       THEN /\ response' = [handler |-> "delete_uploaded_file", upload |-> upload_id,
                            status |-> 400, detail |-> "Upload ID non valido."]
            /\ UNCHANGED <<_uploads, disk>>
       ELSE IF _uploads[upload_id] = Nothing
       THEN /\ response' = [handler |-> "delete_uploaded_file", upload |-> upload_id,
                            status |-> 404, detail |-> "Upload non trovato."]
            /\ UNCHANGED <<_uploads, disk>>
       ELSE /\ _uploads' = [_uploads EXCEPT ![upload_id] = Nothing]
            /\ disk' = [disk EXCEPT ![upload_id] =
                          [part |-> Nothing,
                           final |-> IF _uploads[upload_id][1].stored_path = None
                                     THEN disk[upload_id].final
                                     ELSE Nothing]]
            /\ response' = [handler |-> "delete_uploaded_file", upload |-> upload_id,
                            status |-> 200, detail |-> None]
    /\ UNCHANGED <<heap, _jobs, caller, pipeline_vars, executor, backend_boot_error,
                   uploads, call, requests>>

NextChunks ==
    \/ \E f \in ChunkForms :
          upload_chunk(f.upload_id, f.chunk_index, f.total_chunks, f.original_name)
    \/ \E upload_id \in UploadIds \cup {"../id"} : delete_uploaded_file(upload_id)

\* Upload requests handled one after another.
SpecChunks == Init /\ [][NextChunks]_vars

\* ------------------------------------- upload_chunk requests that overlap
\* The forms whose fields pass the validation of lines 308-312.
ValidChunkForms ==
    {f \in ChunkForms : /\ f.upload_id \in UploadIds
                        /\ f.original_name # ""
                        /\ f.total_chunks >= 1
                        /\ f.total_chunks <= MaxTotalChunks
                        /\ f.chunk_index >= 0}

\* What requests handled one after another leave of an upload: nothing, an
\* entry open after its first chunks with those chunks in the part file, or
\* a completed entry with the final file.
Staged ==
    {[entry |-> Nothing, files |-> NoFiles]}
    \cup UNION {{[entry |-> Some([UploadedFileEntry(t, 0) EXCEPT
                                     !.next_chunk_index = k, !.uploaded_bytes = k]),
                  files |-> [part |-> Some(Chunks(k)), final |-> Nothing]] :
                    k \in 1 .. Min(t - 1, MaxChunks)} :
                 t \in {n \in TotalChunks : n >= 2 /\ n <= MaxTotalChunks}}
    \cup {[entry |-> Some([UploadedFileEntry(t, 0) EXCEPT
                              !.next_chunk_index = t, !.uploaded_bytes = t,
                              !.stored_path = "final", !.completed = TRUE]),
           files |-> [part |-> Nothing, final |-> Some(Chunks(t))]] :
             t \in 1 .. MaxChunks}

\* upload_chunk of request r up to `await chunk.read()`, lines 308-337. The
\* request holds the entry it read, and the requests for the same chunk it
\* found waiting for their data.
upload_chunk_until_await(r, f) ==
    /\ requests[r].pc = "idle"
    /\ LET checked == upload_chunk_checks(_uploads, disk, f.upload_id, f.chunk_index,
                                           f.total_chunks, f.original_name, r)
           waiting == {q \in Requests :
                          /\ requests[q].pc = "await"
                          /\ requests[q].upload = f.upload_id
                          /\ requests[q].chunk_index = f.chunk_index}
       IN  /\ _uploads' = checked._uploads
           /\ disk' = checked.disk
           /\ IF checked.detail = None
              THEN requests' = [requests EXCEPT ![r] =
                      [pc |-> "await", handler |-> "upload_chunk",
                       upload |-> f.upload_id, chunk_index |-> f.chunk_index,
                       total_chunks |-> f.total_chunks,
                       entry |-> checked.entry[1], detail |-> None,
                       overlapped |-> waiting]]
              ELSE requests' = [requests EXCEPT ![r] =
                      [pc |-> "done", handler |-> "upload_chunk",
                       upload |-> f.upload_id, chunk_index |-> f.chunk_index,
                       detail |-> checked.detail, overlapped |-> {}]]
    /\ UNCHANGED <<heap, _jobs, caller, pipeline_vars, executor, backend_boot_error,
                   uploads, call, response>>

\* upload_chunk of request r from the data on, lines 337-382. The entry of
\* a chunk 0 is the object the handler stored: it is read as it is now
\* while the registry still holds it; any other entry is the copy of
\* uploads.get.
upload_chunk_after_await(r) ==
    /\ requests[r].pc = "await"
    /\ requests[r].handler = "upload_chunk"
    /\ LET u == requests[r].upload
           i == requests[r].chunk_index
           stored_object == /\ i = 0
                            /\ _uploads[u] # Nothing
                            /\ _uploads[u][1].object = r
           entry == IF stored_object THEN _uploads[u][1] ELSE requests[r].entry
           stored == upload_chunk_store(_uploads, disk, u, entry, i,
                                        requests[r].total_chunks)
       IN  /\ _uploads' = stored._uploads
           /\ disk' = stored.disk
           /\ requests' = [requests EXCEPT ![r] =
                  [pc |-> "done", handler |-> "upload_chunk", upload |-> u,
                   chunk_index |-> i, detail |-> None,
                   overlapped |-> requests[r].overlapped]]
           /\ response' = ChunkResponse(u, i, requests[r].total_chunks, "doc.pdf",
                                        200, None, stored.completed)
    /\ UNCHANGED <<heap, _jobs, caller, pipeline_vars, executor, backend_boot_error,
                   uploads, call>>

\* The application is running and uploads are under way.
InitOverlap ==
    /\ InitJobs
    /\ backend \in {"cups", "sumatra"}
    /\ backend_boot_error = None
    /\ uploads = [u \in JobIds |-> "absent"]
    /\ \E staged \in [UploadIds -> Staged] :
          /\ _uploads = [u \in UploadIds |-> staged[u].entry]
          /\ disk = [u \in UploadIds |-> staged[u].files]

NextOverlap ==
    \/ \E r \in Requests, f \in ValidChunkForms : upload_chunk_until_await(r, f)
    \/ \E r \in Requests : upload_chunk_after_await(r)

\* upload_chunk coroutines that interleave at the await of the chunk body.
SpecOverlap == InitOverlap /\ [][NextOverlap]_vars

\* ------------------------------------- the callback, called by any backend
\* What a backend that implements the PrinterBackend protocol may pass to the
\* callback it is given.
Percents == {-1, 0, 50, 99, 100, 150}
Messages == {"Documento accodato."}

\* The closure `progress` of process_print_job, called during print_file.
progress(j, percent, message) ==
    /\ pc[j] = "print_file"
    /\ heap' = update_(heap, _jobs, j, ProgressChanges(percent, message))
    /\ UNCHANGED <<handler_vars, backend, _jobs, files, queue, sub_pc, seen, pc,
                   snapshot, current, request_id, attempt, outcome, faults, caller>>

\* print_file of that backend returns or raises.
print_file_ends(j) ==
    /\ pc[j] = "print_file"
    /\ \E end \in {Returned(None), Returned("123"),
                   Raised("PrintBackendError", "printer offline")} :
         /\ outcome' = [outcome EXCEPT ![j] = end]
         /\ pc' = [pc EXCEPT ![j] = IF end.kind = "returned" THEN "returned" ELSE "raised"]
    /\ UNCHANGED <<handler_vars, backend, heap, _jobs, files, queue, sub_pc, seen,
                   snapshot, current, request_id, attempt, faults, caller>>

NextCallback ==
    \E j \in JobIds :
        \/ create_job(j)
        \/ process_print_job_begin(j)
        \/ \E percent \in Percents, message \in Messages : progress(j, percent, message)
        \/ print_file_ends(j)
        \/ process_print_job_completed(j)
        \/ process_print_job_failed(j)
        \/ process_print_job_finally(j)
        \/ process_print_job_unlink(j)

\* The pipeline around a backend that reports any percent.
SpecCallback == Init /\ [][NextCallback]_vars

\* ------------------------------- the pure functions of CupsPrinterBackend
\* Words a summary line of lpstat -p is made of; a summary is a set of them,
\* since _map_state only asks what the text contains.
Words ==
    {"printer", "printing", "PROCESSING", "Idle", "ready", "already", "disabled",
     "Stopped", "enabled", "now"}

\* str.lower() on one word.
lower_word(w) ==
    CASE w = "PROCESSING" -> "processing"
      [] w = "Idle" -> "idle"
      [] w = "Stopped" -> "stopped"
      [] OTHER -> w

\* summary.lower()
lower_text(summary) == {lower_word(w) : w \in summary}

\* `keyword in text`: the keyword is a substring of one of the words.
contains(text, keyword) ==
    \E w \in text : IF w = "already" THEN keyword = "ready" ELSE w = keyword

\* A mutation: a disabled printer is looked for first.
_map_state_disabled_first(summary) ==
    LET text == lower_text(summary)
        enabled == ~contains(text, "disabled")
    IN  IF contains(text, "disabled") \/ contains(text, "stopped")
        THEN <<"stopped", enabled>>
        ELSE IF contains(text, "printing") \/ contains(text, "processing")
        THEN <<"printing", enabled>>
        ELSE IF contains(text, "idle") \/ contains(text, "ready")
        THEN <<"idle", enabled>>
        ELSE <<"unknown", enabled>>

_map_state(summary) ==
    LET text == lower_text(summary)
        enabled == ~contains(text, "disabled")
    IN  IF contains(text, "printing") \/ contains(text, "processing")
        THEN <<"printing", enabled>>
        ELSE IF contains(text, "idle") \/ contains(text, "ready")
        THEN <<"idle", enabled>>
        ELSE IF contains(text, "disabled") \/ contains(text, "stopped")
        THEN <<"stopped", enabled>>
        ELSE <<"unknown", enabled>>

\* Python's round(level / 100) for 0 <= level <= 10000: to the nearest
\* integer, and to the even one of the two when level / 100 ends in .5, which
\* a float holds exactly.
round_hundredth(level) ==
    LET q == level \div 100
        r == level % 100
    IN  IF r < 50 THEN q
        ELSE IF r > 50 THEN q + 1
        ELSE IF q % 2 = 0 THEN q ELSE q + 1

\* A mutation: levels above 10000 are cut to 100.
_normalize_toner_level_cut(level) ==
    IF level = Nothing THEN Nothing
    ELSE IF level[1] < 0 THEN Nothing
    ELSE IF level[1] <= 100 THEN level
    ELSE Some(Max(0, Min(100, round_hundredth(Min(level[1], 10000)))))

_normalize_toner_level(level) ==
    IF level = Nothing THEN Nothing
    ELSE IF level[1] < 0 THEN Nothing
    ELSE IF level[1] <= 100 THEN level
    ELSE IF level[1] <= 10000 THEN Some(Max(0, Min(100, round_hundredth(level[1]))))
    ELSE Nothing

\* Raw marker levels a printer reports, after _parse_int.
RawLevels ==
    {Nothing} \cup
    {Some(n) : n \in {-1, 0, 57, 100, 101, 149, 150, 151, 250, 8000, 9949, 9950,
                      9951, 10000, 10001}}

\* -------------------------------------------- CupsPrinterBackend.get_status
\* Summaries lpstat -p prints as its first line.
Summaries ==
    {{"printer", "printing", "ready"}, {"printer", "disabled", "Stopped"},
     {"printer", "now"}}

\* What lpstat -v reports for the printer.
DeviceUris == {"usb://p1", "ipp://printer/ipp", "ipp://localhost/printers/p1"}
local_uri == "ipp://localhost/printers/p1"
is_ipp(uri) == uri \in {"ipp://printer/ipp", "ipp://localhost/printers/p1"}

\* The marker levels of an ipptool answer that has some.
Markers == <<Some(57), Some(8000), Some(-1), Nothing>>

NoteNoIpptool == "Livelli toner non disponibili (manca il comando ipptool)."
NoteNoTest == "Livelli toner non disponibili (test ipptool non trovato)."
NoteNoLevels == "La stampante non espone i livelli toner via IPP."
NoteError == "Impossibile leggere i livelli toner: errore"

\* _extract_toner_levels: the percent of each marker.
_extract_toner_levels(markers) ==
    [i \in DOMAIN markers |-> _normalize_toner_level(markers[i])]

\* The end of one pass of the loop of _load_toner_levels for an answer with
\* exit code zero.
toner_answer(answer) ==
    IF answer = "markers"
    THEN [toner_levels |-> _extract_toner_levels(Markers), toner_note |-> None]
    ELSE [toner_levels |-> << >>, toner_note |-> NoteNoLevels]

\* _load_toner_levels: answers[i] is how ipptool ends for the i-th URI.
_load_toner_levels(device_uri, ipptool, test, answers) ==
    LET second == device_uri # None /\ is_ipp(device_uri) /\ device_uri # local_uri
    IN  IF ~ipptool THEN [toner_levels |-> << >>, toner_note |-> NoteNoIpptool]
        ELSE IF ~test THEN [toner_levels |-> << >>, toner_note |-> NoteNoTest]
        ELSE IF answers[1] # "nonzero" THEN toner_answer(answers[1])
        ELSE IF second /\ answers[2] # "nonzero" THEN toner_answer(answers[2])
        ELSE [toner_levels |-> << >>, toner_note |-> NoteError]

\* A mutation: the exit code of the first query is not looked at.
get_status_first_any_code(printer, first_ok) ==
    IF printer = "" THEN Raised("PrintBackendError", "Nessuna stampante selezionata.")
    ELSE NoOutcome

\* get_status lines 178-195: the printer name and the first query.
get_status_first(printer, first_ok) ==
    IF printer = "" THEN Raised("PrintBackendError", "Nessuna stampante selezionata.")
    ELSE IF ~first_ok THEN Raised("PrintBackendError", MsgStatus)
    ELSE NoOutcome

\* CupsPrinterBackend.get_status, given how its queries end.
CupsPrinterBackend_get_status(printer, first_ok, summary, accepting, queued, uri, ipptool, test, answers) ==
    LET first == get_status_first(printer, first_ok)
        mapped == _map_state(summary)
        device_uri == IF uri = "nonzero" THEN None ELSE uri
        toner == _load_toner_levels(device_uri, ipptool, test, answers)
    IN  IF first # NoOutcome THEN first
        ELSE Returned([printer |-> printer,
                       state |-> mapped[1],
                       message |-> summary,
                       enabled |-> mapped[2],
                       accepting_jobs |-> IF accepting = "nonzero" THEN Nothing
                                          ELSE Some(accepting = "accepting requests"),
                       queue_length |-> IF queued = Nothing THEN 0 ELSE queued[1],
                       device_uri |-> device_uri,
                       toner_levels |-> toner.toner_levels,
                       toner_note |-> toner.toner_note])

\* printer_backend.get_status(printer) called once.
backend_get_status ==
    /\ call.pc = "idle"
    /\ backend = "cups"
    /\ \E printer \in {"", "p1"}, first_ok \in BOOLEAN, summary \in Summaries,
          accepting \in {"nonzero", "accepting requests", "not accepting"},
          queued \in {Nothing, Some(0), Some(2)},
          uri \in {"nonzero"} \cup DeviceUris,
          ipptool \in BOOLEAN, test \in BOOLEAN,
          answers \in [1..2 -> {"nonzero", "empty", "markers"}] :
         call' = [pc |-> "get_status", printer |-> printer, first_ok |-> first_ok,
                  accepting |-> accepting, queued |-> queued, uri |-> uri,
                  ipptool |-> ipptool, test |-> test, answers |-> answers,
                  outcome |-> CupsPrinterBackend_get_status(printer, first_ok, summary,
                                  accepting, queued, uri, ipptool, test, answers)]
    /\ UNCHANGED <<heap, _jobs, caller, pipeline_vars, upload_vars, executor,
                   backend_boot_error, uploads, response>>

\* self._map_state(summary) called once.
backend_map_state ==
    /\ call.pc = "idle"
    /\ backend = "cups"
    /\ \E summary \in SUBSET Words :
         call' = [pc |-> "_map_state", summary |-> summary,
                  result |-> _map_state(summary)]
    /\ UNCHANGED <<heap, _jobs, caller, pipeline_vars, upload_vars, executor,
                   backend_boot_error, uploads, response>>

\* self._normalize_toner_level(level) called once.
backend_normalize_toner_level ==
    /\ call.pc = "idle"
    /\ backend = "cups"
    /\ \E level \in RawLevels :
         call' = [pc |-> "_normalize_toner_level", level |-> level,
                  result |-> _normalize_toner_level(level)]
    /\ UNCHANGED <<heap, _jobs, caller, pipeline_vars, upload_vars, executor,
                   backend_boot_error, uploads, response>>

NextStatus ==
    \/ backend_get_status
    \/ backend_map_state
    \/ backend_normalize_toner_level

\* The CUPS backend, asked once for a status or for one of its conversions.
SpecStatus == Init /\ [][NextStatus]_vars

\* ------------------------------------------- print_file, called directly
\* A mutation: the copy count is not checked.
print_file_check_no_copies(exists, copies) ==
    IF ~exists THEN Raised("PrintBackendError", "Il file da stampare non esiste.")
    ELSE NoOutcome

\* The two guards that open print_file in both backends.
print_file_check(exists, copies) ==
    IF ~exists THEN Raised("PrintBackendError", "Il file da stampare non esiste.")
    ELSE IF copies < 1 THEN Raised("PrintBackendError", "Numero copie non valido.")
    ELSE NoOutcome

PrintOptions(printer, copies, color, duplex) ==
    [printer |-> printer, copies |-> copies, color |-> color, duplex |-> duplex]

\* The lp command line print_file builds.
lp_command(options) ==
    <<"lp", "-d", options.printer, "-n", options.copies,
      IF options.duplex THEN "sides=two-sided-long-edge" ELSE "sides=one-sided",
      IF options.color THEN "print-color-mode=color" ELSE "print-color-mode=monochrome">>

\* The SumatraPDF command line print_file builds.
sumatra_command(options, source_path) ==
    <<"SumatraPDF", "-silent", "-print-to", options.printer, "-print-settings",
      options.copies, IF options.color THEN "color" ELSE "monochrome",
      IF options.duplex THEN "duplexlong" ELSE "simplex", source_path>>

\* What a call has done: how it ended, the percents it reported through the
\* progress callback, and the commands it ran.
Done(outcome_, reported, ran) ==
    [outcome |-> outcome_, reported |-> reported, ran |-> ran]

\* _wait_for_release from attempt a on: the job is still listed `listed`
\* times more, then the poll ends as `last` says (unless the attempts run out).
RECURSIVE _wait_for_release(_, _, _, _)
_wait_for_release(printer, a, listed, last) ==
    IF a > MaxAttempts THEN Done(NoOutcome, << >>, << >>)
    ELSE IF listed = 0
    THEN IF last = "nonzero"
         THEN Done(NoOutcome, << >>, <<<<"lpstat", "-o", printer>>>>)
         ELSE Done(NoOutcome, <<92>>, <<<<"lpstat", "-o", printer>>>>)
    ELSE LET rest == _wait_for_release(printer, a + 1, listed - 1, last)
         IN  Done(NoOutcome, <<PollProgress(a)>> \o rest.reported,
                  <<<<"lpstat", "-o", printer>>>> \o rest.ran)

\* CupsPrinterBackend.print_file, given what lp and lpstat answer.
CupsPrinterBackend_print_file(exists, options, lp, listed, last) ==
    LET check == print_file_check(exists, options.copies)
    IN  IF check # NoOutcome THEN Done(check, << >>, << >>)
        ELSE IF lp = "nonzero"
        THEN Done(Raised("PrintBackendError", "Comando lp fallito: errore sconosciuto"),
                  <<40>>, <<lp_command(options)>>)
        ELSE IF lp = "no id"
        THEN Done(print_file_return(None), <<40, 85>>, <<lp_command(options)>>)
        ELSE LET wait == _wait_for_release(options.printer, 1, listed, last)
             IN  Done(print_file_return("123"), <<40, 65>> \o wait.reported,
                      <<lp_command(options)>> \o wait.ran)

\* SumatraPrinterBackend.print_file, given how SumatraPDF ends. generated_pdf
\* tells what became of the render _text_to_pdf made of a .txt file: line 520
\* deletes it, and is not reached when subprocess.run raises TimeoutExpired.
SumatraPrinterBackend_print_file(exists, suffix, options, run) ==
    LET check == print_file_check(exists, options.copies)
        source_path == IF suffix = ".txt" THEN "webprinter_text_.pdf" ELSE "file"
        command == sumatra_command(options, source_path)
        made == suffix = ".txt"
    IN  IF check # NoOutcome
        THEN [generated_pdf |-> "none"] @@ Done(check, << >>, << >>)
        ELSE IF run = "timeout"
        THEN [generated_pdf |-> IF made THEN "exists" ELSE "none"] @@
             Done(Raised("TimeoutExpired", "Command timed out after 180 seconds"),
                  <<45>>, <<command>>)
        ELSE IF run = "nonzero"
        THEN [generated_pdf |-> IF made THEN "deleted" ELSE "none"] @@
             Done(Raised("PrintBackendError",
                         "SumatraPDF ha fallito la stampa: errore sconosciuto"),
                  <<45>>, <<command>>)
        ELSE [generated_pdf |-> IF made THEN "deleted" ELSE "none"] @@
             Done(Returned(None), <<45, 90>>, <<command>>)

\* How many more times the job is listed by lpstat -o after lp queued it.
Listed == {0, 1, MaxAttempts - 1, MaxAttempts, MaxAttempts + 1}

\* printer_backend.print_file(file_path, options, progress) called once with
\* arguments of the caller's choice.
backend_print_file ==
    /\ call.pc = "idle"
    /\ \E exists \in BOOLEAN, suffix \in {".pdf", ".txt"}, printer \in {"p1", "p2"},
          copies \in {0, 1, 2}, color \in BOOLEAN, duplex \in BOOLEAN,
          run \in {"nonzero", "timeout", "no id", "id"},
          listed \in Listed, last \in {"nonzero", "released"} :
         LET options == PrintOptions(printer, copies, color, duplex)
             ends == IF backend = "cups"
                     THEN IF run = "timeout" THEN "nonzero" ELSE run
                     ELSE IF run \in {"no id", "id"} THEN "zero" ELSE run
             done == IF backend = "cups"
                     THEN [generated_pdf |-> "none"] @@
                          CupsPrinterBackend_print_file(exists, options, ends, listed,
                                                        last)
                     ELSE SumatraPrinterBackend_print_file(exists, suffix, options, ends)
         IN  call' = [pc |-> "done", exists |-> exists, suffix |-> suffix,
                      options |-> options, run |-> ends,
                      listed |-> IF backend = "cups" /\ ends = "id" THEN listed ELSE 0,
                      last |-> IF backend = "cups" /\ ends = "id" THEN last ELSE None,
                      outcome |-> done.outcome, reported |-> done.reported,
                      ran |-> done.ran, generated_pdf |-> done.generated_pdf]
    /\ UNCHANGED <<heap, _jobs, caller, pipeline_vars, upload_vars, executor,
                   backend_boot_error, uploads, response>>

NextBackend == backend_print_file

\* One backend, called directly.
SpecBackend == Init /\ [][NextBackend]_vars

\* ================================================================ claims
Stored(j) == heap[_jobs[j]]
Terminal(r) == r.status \in TERMINAL_STATUSES

\* ---------------------------------------------------------------- C1
\* C1: while a job is not terminal, no step lowers its stored progress, from
\* the 8 of creation through preparing, every callback report of either
\* backend and the step into the terminal state, whatever the backend call
\* does.
C1_ProgressNeverDecreases ==
    [][\A j \in DOMAIN _jobs :
         ~Terminal(Stored(j)) => Stored(j)'.progress >= Stored(j).progress]_vars

\* A CUPS job still listed at the twelfth poll, reported at 90.
C1_Witness ==
    \E j \in DOMAIN _jobs :
        /\ pc[j] = "returned"
        /\ attempt[j] = MaxAttempts
        /\ Stored(j).progress = 90

\* ---------------------------------------------------------------- C2
\* C2: every record of the store, and every snapshot get or update handed
\* out, has progress 100 when its status is completed or failed and a
\* progress within 0..99 when it is queued, preparing or printing.
C2_TerminalIffHundred ==
    \A o \in DOMAIN heap :
        /\ heap[o].status \in {"queued", "preparing", "printing", "completed", "failed"}
        /\ Terminal(heap[o]) => heap[o].progress = 100
        /\ ~Terminal(heap[o]) => heap[o].progress \in 0..99

\* The pipeline's own last snapshot (`current`) shows a failed job at 100.
C2_Witness ==
    \E j \in JobIds :
        /\ current[j] # NoRef
        /\ heap[current[j]].status = "failed"
        /\ heap[current[j]].progress = 100

\* ---------------------------------------------------------------- C3
\* C3: once a record is completed or failed, no step changes its status,
\* progress, error or printer_job_id, and its message changes only in the
\* cleanup step of its own run, when deleting the file failed.
C3_TerminalIsFinal ==
    [][\A j \in DOMAIN _jobs :
         Terminal(Stored(j)) =>
            /\ Stored(j)' = [Stored(j) EXCEPT !.message = Stored(j)'.message]
            /\ Stored(j)'.message # Stored(j).message =>
                  /\ pc[j] = "unlink" /\ pc'[j] = "done"
                  /\ j \in files /\ j \in files'
                  /\ Stored(j)'.message = MsgCleanup]_vars

\* A finished job whose message is the cleanup notice.
C3_Witness ==
    \E j \in DOMAIN _jobs :
        /\ pc[j] = "done"
        /\ Terminal(Stored(j))
        /\ Stored(j).message = MsgCleanup

\* ---------------------------------------------------------------- C4
StatusStep(j, from, to) == Stored(j).status = from /\ Stored(j)'.status = to

StatusChanges(j) == Stored(j)'.status # Stored(j).status

\* C4 as claimed: every status change is queued -> preparing, preparing ->
\* printing, printing -> completed or printing -> failed, and preparing is
\* written as the run begins, before the backend is invoked.
C4_Original ==
    [][\A j \in DOMAIN _jobs :
         /\ StatusChanges(j) =>
               \/ StatusStep(j, "queued", "preparing")
               \/ StatusStep(j, "preparing", "printing")
               \/ StatusStep(j, "printing", "completed")
               \/ StatusStep(j, "printing", "failed")
         /\ StatusStep(j, "queued", "preparing") =>
               pc[j] = "pending" /\ pc'[j] = "print_file"]_vars

\* C4 amended: as claimed, except that failed is also written directly from
\* preparing, when print_file raises before its first progress report.
C4_StatusChain ==
    [][\A j \in DOMAIN _jobs :
         /\ StatusChanges(j) =>
               \/ StatusStep(j, "queued", "preparing")
               \/ StatusStep(j, "preparing", "printing")
               \/ StatusStep(j, "printing", "completed")
               \/ StatusStep(j, "printing", "failed")
               \/ /\ StatusStep(j, "preparing", "failed")
                  /\ outcome[j].kind = "raised"
         /\ StatusStep(j, "queued", "preparing") =>
               pc[j] = "pending" /\ pc'[j] = "print_file"]_vars

\* A job that failed without ever being in status printing: its file was gone.
C4_Witness ==
    \E j \in DOMAIN _jobs :
        /\ Stored(j).status = "failed"
        /\ Stored(j).error = "Il file da stampare non esiste."

\* ---------------------------------------------------------------- C5
\* C5: after print_file returned X, the first change of the record writes
\* completed / 100 / printer_job_id X / error null, and the record keeps
\* these values to the end of the run and after it.
C5_ReturnedIsCompleted ==
    /\ [](\A j \in DOMAIN _jobs :
            outcome[j].kind = "returned" /\ pc[j] \in {"finally", "unlink", "done"} =>
               /\ Stored(j).status = "completed"
               /\ Stored(j).progress = 100
               /\ Stored(j).printer_job_id = outcome[j].value
               /\ Stored(j).error = None)
    /\ [][\A j \in DOMAIN _jobs :
            pc[j] = "returned" /\ Stored(j)' # Stored(j) =>
               /\ outcome[j].kind = "returned"
               /\ Stored(j)'.status = "completed"
               /\ Stored(j)'.printer_job_id = outcome[j].value]_vars

\* Request id "123", released at the second poll, recorded as completed.
C5_Witness ==
    \E j \in DOMAIN _jobs :
        /\ pc[j] = "finally"
        /\ attempt[j] = 2
        /\ outcome[j] = Returned("123")
        /\ Stored(j).status = "completed"
        /\ Stored(j).printer_job_id = "123"

\* ---------------------------------------------------------------- C6
RaisedAndHandled(j) ==
    /\ outcome[j].kind = "raised"
    /\ pc[j] \in {"finally", "unlink", "done"}

\* C6 as claimed: after print_file raised E the record is failed / 100 /
\* generic failure message / error text of E / no printer_job_id, to the end.
C6_Original ==
    \A j \in DOMAIN _jobs :
        RaisedAndHandled(j) =>
            /\ handles(outcome[j].exc)
            /\ Stored(j).status = "failed"
            /\ Stored(j).progress = 100
            /\ Stored(j).message = MsgFailed
            /\ Stored(j).error = outcome[j].text
            /\ Stored(j).printer_job_id = None

\* C6 amended: as claimed, except that the message is the generic failure
\* message until the cleanup step, which replaces it with the cleanup notice
\* when deleting the job's file fails.
C6_RaisedIsFailed ==
    \A j \in DOMAIN _jobs :
        RaisedAndHandled(j) =>
            /\ handles(outcome[j].exc)
            /\ Stored(j).status = "failed"
            /\ Stored(j).progress = 100
            /\ Stored(j).error = outcome[j].text
            /\ Stored(j).printer_job_id = None
            /\ pc[j] # "done" => Stored(j).message = MsgFailed
            /\ pc[j] = "done" =>
                  Stored(j).message = IF j \in files THEN MsgCleanup ELSE MsgFailed

\* A SumatraPDF run that timed out, recorded as failed with the timeout's text.
C6_Witness ==
    \E j \in DOMAIN _jobs :
        /\ pc[j] = "done"
        /\ outcome[j].exc = "TimeoutExpired"
        /\ Stored(j).status = "failed"
        /\ Stored(j).error = "Command timed out after 180 seconds"

\* ---------------------------------------------------------------- C7
\* C7: under weak fairness of the workers, every job that was stored and
\* dispatched is eventually completed or failed, with more jobs dispatched
\* than there are workers and whatever the earlier runs ended in.
C7_EveryJobEnds ==
    \A j \in JobIds :
        (pc[j] = "pending") ~> (j \in DOMAIN _jobs /\ Terminal(Stored(j)))

\* Three jobs were dispatched at once, the first run failed, and the job that
\* had to wait for a worker is completed.
C7_Witness ==
    /\ MaxJobs > max_workers
    /\ DOMAIN _jobs = JobIds
    /\ Stored(1).status = "failed"
    /\ pc[MaxJobs] = "done"
    /\ Stored(MaxJobs).status = "completed"

\* ---------------------------------------------------------------- C8
\* C8: get and update return an independent copy: a caller that assigns
\* fields of the snapshot it holds changes no stored record (so what later
\* get calls return is unchanged), and an update changes no snapshot that
\* another caller was handed earlier.
C8_SnapshotsAreCopies ==
    [][/\ \A j \in DOMAIN _jobs :
            \/ /\ Stored(j)' = Stored(j)
               /\ LET later == JobRegistry_get(heap', _jobs', j, TempRef(j))
                  IN  later.heap[later.ref] = Stored(j)
            \/ \A c \in Callers : ~caller_setattr(c)
       /\ \A d \in Callers :
            \/ caller[d] = NoRef
            \/ caller'[d] # caller[d]
            \/ heap'[caller[d]] = heap[caller[d]]
            \/ \A c \in Callers \ {d}, j \in JobIds : ~registry_update(c, j)]_vars

\* A caller holds a snapshot of a stored job that differs from the record:
\* either the caller assigned its fields or the record was updated since.
C8_Witness ==
    \E c \in Callers :
        /\ caller[c] # NoRef
        /\ heap[caller[c]].id \in DOMAIN _jobs
        /\ heap[caller[c]] # Stored(heap[caller[c]].id)
        /\ heap[caller[c]].status = "queued"
        /\ Stored(heap[caller[c]].id).status = "completed"

\* ---------------------------------------------------------------- C9
\* C9: what create_job renders after jobs.create and executor.submit is the
\* queued snapshot: the status it reads is queued and the progress it reads
\* is 8, whatever the worker did in the meantime, and the object the handler
\* holds is not the record the worker mutates: it does not change while the
\* handler holds it.
C9_ResponseIsQueuedSnapshot ==
    [][\A j \in JobIds :
         /\ sub_pc'[j] = "render_rest" => seen'[j] = "queued"
         /\ sub_pc[j] = "render_rest" /\ sub_pc'[j] = "returned" =>
               heap[JobRef(j)].progress = 8
         /\ sub_pc[j] \in {"render", "render_rest"} =>
               heap'[JobRef(j)] = heap[JobRef(j)]]_vars

\* --------------------------------------------------------------- C10
\* C10: the store holds one record per submission, each its own object; a
\* step changes the record of one job only, the one whose run takes the step;
\* and a reader sees whole updates only: the status and the progress that one
\* rendering reads belong to the same update of the record.
C10_WholeUpdatesOnly ==
    /\ [](/\ DOMAIN _jobs = {j \in JobIds : sub_pc[j] # "idle"}
          /\ \A i, j \in DOMAIN _jobs : i # j => _jobs[i] # _jobs[j])
    /\ [][\A j \in DOMAIN _jobs :
            /\ Stored(j)' # Stored(j) => pc'[j] # pc[j]
            /\ sub_pc[j] = "render_rest" /\ sub_pc'[j] = "returned" =>
                  seen[j] = Stored(j).status]_vars

\* --------------------------------------------------------------- C11
\* C11: update with a job id that was never created returns nothing and
\* leaves the store as it is: no record appears, no record changes, and the
\* same call made again returns nothing and changes nothing again.
C11_UpdateOfUnknownId ==
    [][\A c \in Callers, j \in JobIds \ DOMAIN _jobs :
         \/ /\ caller'[c] = NoRef
            /\ _jobs' = _jobs
            /\ \A i \in DOMAIN _jobs : Stored(i)' = Stored(i)
            /\ \A changes \in RegistryChanges :
                  JobRegistry_update(heap', _jobs', j, changes, CallerRef(c))
                     = [ref |-> NoRef, heap |-> heap']
         \/ ~registry_update(c, j)]_vars

\* Some ids are stored, some are not, and of two callers one holds a snapshot
\* and the other was answered with nothing.
C11_Witness ==
    /\ DOMAIN _jobs # {}
    /\ DOMAIN _jobs # JobIds
    /\ \E c, d \in Callers :
          /\ caller[c] = NoRef
          /\ caller[d] # NoRef
          /\ CallerRef(c) \notin DOMAIN heap

\* --------------------------------------------------------------- C12
InsideRun == {j \in JobIds : pc[j] \notin {"none", "pending", "cancelled", "done"}}

Occurrences(q, j) == Cardinality({i \in DOMAIN q : q[i] = j})

C13_FileCleanedUp ==
    /\ [](\A j \in DOMAIN _jobs :
            pc[j] = "done" => j \notin files \/ Stored(j).message = MsgCleanup)
    /\ [][\A j \in DOMAIN _jobs :
            (/\ pc'[j] # "pending"
             /\ \/ j \in files /\ j \notin files'
                \/ Stored(j).message # MsgCleanup /\ Stored(j)'.message = MsgCleanup)
            => /\ pc[j] = "unlink" /\ pc'[j] = "done"
               /\ Terminal(Stored(j))
               /\ outcome[j].kind \in {"returned", "raised"}]_vars

\* Two runs have ended: one deleted its file, the other could not and said so.
C13_Witness ==
    \E i, j \in DOMAIN _jobs :
        /\ pc[i] = "done" /\ pc[j] = "done"
        /\ i \notin files /\ Stored(i).message # MsgCleanup
        /\ j \in files /\ Stored(j).message = MsgCleanup
        /\ Stored(i).status = "completed"
        /\ Stored(j).status = "failed"

\* --------------------------------------------------------------- C19
\* C19: the store never loses an entry: once an id is stored, after every
\* step the id is still stored, its record is still an object with that id,
\* and get(id) returns a record and not nothing.
C19_NoEntryLost ==
    [][\A j \in DOMAIN _jobs :
         /\ j \in DOMAIN _jobs'
         /\ _jobs'[j] \in DOMAIN heap'
         /\ Stored(j)'.id = j
         /\ LET later == JobRegistry_get(heap', _jobs', j, TempRef(j))
            IN  /\ later.ref # NoRef
                /\ later.heap[later.ref] = Stored(j)']_vars

\* All ids are stored, the first run has ended and released its snapshots,
\* and the first record is still there.
C19_Witness ==
    /\ DOMAIN _jobs = JobIds
    /\ pc[1] = "done"
    /\ JobRegistry_get(heap, _jobs, 1, TempRef(1)).ref = TempRef(1)
    /\ SnapshotRef(1) \notin DOMAIN heap

\* --------------------------------------------------------------- C17
\* C17: in both backends, print_file called for a path that does not exist
\* or with a copy count below 1 raises PrintBackendError, has run no command
\* and has not called the progress callback, whatever the printer name, the
\* color flag and the duplex flag are.
C17_RejectedBeforeAnyCommand ==
    (call.pc = "done" /\ (~call.exists \/ call.options.copies < 1)) =>
        /\ call.outcome.kind = "raised"
        /\ call.outcome.exc = "PrintBackendError"
        /\ call.ran = << >>
        /\ call.reported = << >>

\* The file exists and the copy count is 0: the call ended in the error about
\* the copies.
C17_Witness ==
    /\ call.pc = "done"
    /\ call.exists
    /\ call.options.copies = 0
    /\ call.options.duplex
    /\ call.outcome.text = "Numero copie non valido."
    /\ call.ran = << >>

\* --------------------------------------------------------------- C18
\* C18: whatever integer percent a backend passes to the callback, the stored
\* progress becomes max(0, min(99, percent)), the status printing and the
\* message the given one; and a status becomes printing in no other step of
\* create_job or process_print_job.
C18_CallbackClamps ==
    [][\A j \in DOMAIN _jobs :
         /\ \A percent \in Percents, message \in Messages :
               Stored(j)' # Stored(j) /\ progress(j, percent, message) =>
                  /\ Stored(j)'.progress =
                        IF percent < 0 THEN 0 ELSE IF percent > 99 THEN 99 ELSE percent
                  /\ Stored(j)'.message = message
                  /\ Stored(j)'.status = "printing"
         /\ Stored(j).status # "printing" /\ Stored(j)'.status = "printing" =>
               \E percent \in Percents, message \in Messages :
                  progress(j, percent, message)]_vars

\* The callback was given a percent above 99 or below 0 and the record shows
\* status printing with the clamped value.
C18_Witness ==
    \E i, j \in DOMAIN _jobs :
        /\ pc[i] = "print_file" /\ pc[j] = "print_file"
        /\ Stored(i).status = "printing" /\ Stored(i).progress = 99
        /\ Stored(j).status = "printing" /\ Stored(j).progress = 0

\* --------------------------------------------------------------- C20
\* C20: for every combination of `lp found`, `lpstat found`, `host is
\* Windows` and `SumatraPDF found`, build_backend returns a pair with exactly
\* one part set: the CUPS backend when lp and lpstat are both found, Windows
\* host or not; otherwise the SumatraPDF backend when the host is Windows and
\* SumatraPDF is found; otherwise no backend and an error string that is not
\* empty.
C20_BuildBackend ==
    [][\A lp, lpstat, nt, sumatra \in BOOLEAN :
         boot(lp, lpstat, nt, sumatra) =>
            /\ (backend' = "none") # (backend_boot_error' = None)
            /\ backend' = IF lp /\ lpstat THEN "cups"
                          ELSE IF nt /\ sumatra THEN "sumatra"
                          ELSE "none"
            /\ backend' = "none" => backend_boot_error' \notin {None, ""}]_vars

\* A Windows host without CUPS and without SumatraPDF: no backend, and the
\* error asks for SumatraPDF.
C20_Witness ==
    /\ backend = "none"
    /\ backend_boot_error = MsgNoSumatra

\* --------------------------------------------------------------- C14
\* C14: while the application has no backend, every answer of create_job,
\* index and printer_status reports the stored boot error and no backend
\* operation was run for it; the store, the queue of dispatched runs and the
\* staged uploads are left as they were.
C14_NoBackendAnswers ==
    [][(backend = "none" /\ response' # response) =>
          /\ response'.error = backend_boot_error
          /\ response'.error \notin {None, ""}
          /\ response'.ran = << >>
          /\ _jobs' = _jobs
          /\ heap' = heap
          /\ queue' = queue
          /\ sub_pc' = sub_pc
          /\ files' = files
          /\ uploads' = uploads]_vars

\* create_job answered without a backend while completed uploads are staged.
C14_Witness ==
    /\ backend = "none"
    /\ response.handler = "create_job"
    /\ response.error = MsgNoBackend
    /\ \A u \in JobIds : uploads[u] = "completed"
    /\ _jobs = << >>

\* --------------------------------------------------------------- C15
\* The statement as written: a create_job answer that rejects the color mode,
\* the copy count or the printer name was given without any backend
\* operation, each of which runs a subprocess.
C15_Original ==
    [][(response' # response /\ response'.handler = "create_job"
        /\ response'.error \in {MsgColor, MsgCopies, MsgPrinter}) =>
          response'.ran = << >>]_vars

\* C15: a create_job answer that rejects the color mode or the copy count was
\* given without any backend operation; one that rejects the printer name was
\* given after list_printers, which runs a subprocess, and no other backend
\* operation.
C15_RejectedBeforeOrAfterListing ==
    [][(response' # response /\ response'.handler = "create_job") =>
          /\ response'.error \in {MsgColor, MsgCopies} => response'.ran = << >>
          /\ response'.error = MsgPrinter => response'.ran = <<"list_printers">>]_vars

\* A submission was rejected for its printer name, after the listing.
C15_Witness ==
    /\ response.handler = "create_job"
    /\ response.error = MsgPrinter
    /\ response.ran = <<"list_printers">>

\* --------------------------------------------------------------- C16
\* C16: when create_job rejects a submission with a ValueError or a
\* PrintBackendError, the ids in the store stay the same, the stored jobs stay
\* as they were, no run is dispatched, and the id of the failed job shown to
\* the caller is the id of no stored job.
C16_RejectedNeverReachesPipeline ==
    [][(response' # response /\ response'.handler = "create_job"
        /\ response'.message = MsgInvalid) =>
          /\ response'.error # None
          /\ DOMAIN _jobs' = DOMAIN _jobs
          /\ _jobs' = _jobs
          /\ heap' = heap
          /\ queue' = queue
          /\ pc' = pc
          /\ sub_pc' = sub_pc
          /\ response'.shown \cap DOMAIN _jobs' = {}]_vars

\* A submission was rejected because the printers could not be listed, after
\* another one was accepted and stored.
C16_Witness ==
    /\ response.handler = "create_job"
    /\ response.message = MsgInvalid
    /\ response.error = MsgListing
    /\ response.shown = {error_job_id}
    /\ 1 \in DOMAIN _jobs
    /\ queue = <<1>>

\* --------------------------------------------------------------- C22
\* C22: when SumatraPrinterBackend.print_file was given a .txt file and
\* started the submission command, the temporary PDF render does not exist
\* when print_file has ended, whether the command exited with zero, exited
\* with another code or ran into the 180-second timeout.
C22_RenderDeleted ==
    (call.pc = "done" /\ backend = "sumatra" /\ call.suffix = ".txt"
     /\ call.ran # << >>) =>
        call.generated_pdf = "deleted"

\* --------------------------------------------------------------- C23
\* C23: when the submission command of SumatraPrinterBackend.print_file
\* exits non-zero or runs into its timeout, print_file raises
\* PrintBackendError with the diagnostic text of the command and has not
\* reported 90 through the progress callback.
C23_SubmissionFailureIsBackendError ==
    (call.pc = "done" /\ backend = "sumatra" /\ call.ran # << >>
     /\ call.run \in {"nonzero", "timeout"}) =>
        /\ call.outcome.kind = "raised"
        /\ call.outcome.exc = "PrintBackendError"
        /\ call.outcome.text = "SumatraPDF ha fallito la stampa: errore sconosciuto"
        /\ \A i \in DOMAIN call.reported : call.reported[i] # 90

\* --------------------------------------------------------------- C26
\* The queue queries of a call and the percents reported after 40 and 65.
Polls == Len(call.ran) - 1
Waits == SubSeq(call.reported, 3, Len(call.reported))

\* C26: once CupsPrinterBackend.print_file has a request id, the queue is
\* queried at most 12 times, once more than the id was found listed; the
\* percents reported while the id is listed never decrease and lie in 68..90;
\* the first query that does not list the id is the last one, and 92 is the
\* last report; 92 is reported in no other case.
C26_WaitForRelease ==
    (call.pc = "done" /\ backend = "cups" /\ call.outcome = Returned("123")) =>
        LET still == Min(call.listed, MaxAttempts)
        IN  /\ Polls <= MaxAttempts
            /\ Polls = Min(call.listed + 1, MaxAttempts)
            /\ Len(Waits) >= still
            /\ \A i \in 1..still :
                  /\ Waits[i] \in 68..90
                  /\ i < still => Waits[i] <= Waits[i + 1]
            /\ IF call.listed < MaxAttempts /\ call.last = "released"
               THEN Waits = SubSeq(Waits, 1, still) \o <<92>>
               ELSE Len(Waits) = still

\* The id was listed eleven times and was gone at the twelfth query.
C26_Witness ==
    /\ call.pc = "done"
    /\ backend = "cups"
    /\ call.listed = MaxAttempts - 1
    /\ call.last = "released"
    /\ Polls = MaxAttempts
    /\ Waits[MaxAttempts - 1] = 90
    /\ Waits[MaxAttempts] = 92

\* --------------------------------------------------------------- C28
\* C28: when CupsPrinterBackend.print_file ends after a successful lp, it
\* returns the request id it extracted, whether the job left the queue, a
\* queue query failed or the job was still listed at the twelfth query, and
\* it returns nothing, without any queue query, when lp printed no id;
\* process_print_job then records the job as completed with that value, even
\* though the job may still be in the queue.
C28_SubmittedIsCompleted ==
    [][\A j \in JobIds :
         (backend = "cups" /\ pc'[j] # pc[j]) =>
            /\ (pc[j] = "poll" /\ pc'[j] # "poll") =>
                  /\ pc'[j] = "returned"
                  /\ outcome'[j] = Returned("123")
            /\ (pc[j] = "submit" /\ pc'[j] = "returned") =>
                  /\ outcome'[j] = Returned(None)
                  /\ attempt'[j] = 0
            /\ pc[j] = "returned" =>
                  /\ Stored(j)'.status = "completed"
                  /\ Stored(j)'.printer_job_id = outcome[j].value]_vars

\* print_file has returned the id while the job was still listed at the
\* twelfth query: the last report says so.
C28_Witness ==
    /\ backend = "cups"
    /\ pc[1] = "returned"
    /\ attempt[1] = MaxAttempts
    /\ outcome[1] = Returned("123")
    /\ Stored(1).message = "Job ancora in coda locale."
    /\ Stored(1).progress = 90

\* --------------------------------------------------------------- C30
\* C30: every stored record has an error only when its status is failed and
\* a printer job id only when its status is completed; a record that is
\* queued, preparing or printing has neither.
C30_ErrorAndIdFollowStatus ==
    \A j \in DOMAIN _jobs :
        /\ Stored(j).error # None => Stored(j).status = "failed"
        /\ Stored(j).printer_job_id # None => Stored(j).status = "completed"
        /\ Stored(j).status \in {"queued", "preparing", "printing"} =>
              /\ Stored(j).error = None
              /\ Stored(j).printer_job_id = None

\* One job failed with its error recorded, one completed with the id lp
\* printed, and one is printing.
C30_Witness ==
    /\ DOMAIN _jobs = JobIds
    /\ \E i, j, k \in JobIds :
          /\ Stored(i).status = "failed"
          /\ Stored(i).error # None
          /\ Stored(j).status = "completed"
          /\ Stored(j).printer_job_id = "123"
          /\ Stored(k).status = "printing"

\* --------------------------------------------------------------- C24
\* C24: _map_state decides by the lower-cased summary: printing when it
\* contains "printing" or "processing"; otherwise idle when it contains
\* "idle" or "ready"; otherwise stopped when it contains "disabled" or
\* "stopped"; otherwise unknown; and enabled is false exactly when it
\* contains "disabled".
C24_MapState ==
    call.pc = "_map_state" =>
        LET has(keyword) == contains(lower_text(call.summary), keyword)
            printing == has("printing") \/ has("processing")
            idle == has("idle") \/ has("ready")
            stopped == has("disabled") \/ has("stopped")
        IN  /\ call.result[1] = "printing" <=> printing
            /\ call.result[1] = "idle" <=> (~printing /\ idle)
            /\ call.result[1] = "stopped" <=> (~printing /\ ~idle /\ stopped)
            /\ call.result[1] = "unknown" <=> (~printing /\ ~idle /\ ~stopped)
            /\ call.result[2] = ~has("disabled")
            /\ call.summary = {"printer", "printing", "ready"} =>
                  call.result = <<"printing", TRUE>>
            /\ call.summary = {"printer", "disabled", "Stopped"} =>
                  call.result = <<"stopped", FALSE>>
            /\ call.summary = {"printer", "now"} => call.result[1] = "unknown"

\* A disabled printer that is still processing: printing, and not enabled.
C24_Witness ==
    /\ call.pc = "_map_state"
    /\ call.summary = {"printer", "disabled", "PROCESSING"}
    /\ call.result = <<"printing", FALSE>>

\* --------------------------------------------------------------- C25
\* C25: _normalize_toner_level returns unknown or an integer in 0..100; a
\* level in 0..100 is returned as it is, 8000 gives 80, and a missing level, a
\* negative level or a level above 10000 gives unknown.
C25_NormalizedLevel ==
    call.pc = "_normalize_toner_level" =>
        /\ call.result = Nothing \/ call.result[1] \in 0..100
        /\ (call.level # Nothing /\ call.level[1] \in 0..100) =>
              call.result = call.level
        /\ call.level = Some(57) => call.result = Some(57)
        /\ call.level = Some(8000) => call.result = Some(80)
        /\ call.level = Nothing => call.result = Nothing
        /\ (call.level # Nothing /\ (call.level[1] < 0 \/ call.level[1] > 10000)) =>
              call.result = Nothing

\* A level above 10000 was given, and unknown came back.
C25_Witness ==
    /\ call.pc = "_normalize_toner_level"
    /\ call.level = Some(10001)
    /\ call.result = Nothing

\* --------------------------------------------------------------- C27
\* C27: for a raw level above 100 and up to 10000, _normalize_toner_level
\* returns the level divided by 100, rounded down.
C27_RoundedDown ==
    (call.pc = "_normalize_toner_level" /\ call.level # Nothing
     /\ call.level[1] > 100 /\ call.level[1] <= 10000) =>
        call.result = Some(call.level[1] \div 100)

\* --------------------------------------------------------------- C21
\* C21: CupsPrinterBackend.get_status raises, and then PrintBackendError,
\* exactly when the printer name is empty or the first query exits non-zero.
\* Otherwise it returns a snapshot whatever the other queries do: with
\* accepting_jobs unknown when the accepting query fails, queue_length 0 when
\* the queue query fails, no device_uri when the device query fails, and no
\* toner levels but a toner note when the toner levels cannot be read.
C21_StatusTolerance ==
    call.pc = "get_status" =>
        LET snapshot_ == call.outcome.value
            toner_fails == \/ ~call.ipptool
                           \/ ~call.test
                           \/ /\ call.answers[1] = "nonzero"
                              /\ IF call.uri = "ipp://printer/ipp"
                                 THEN call.answers[2] = "nonzero"
                                 ELSE TRUE
        IN  /\ call.outcome.kind \in {"raised", "returned"}
            /\ call.outcome.kind = "raised" <=> (call.printer = "" \/ ~call.first_ok)
            /\ call.outcome.kind = "raised" => call.outcome.exc = "PrintBackendError"
            /\ call.outcome.kind = "returned" =>
                  /\ call.accepting = "nonzero" => snapshot_.accepting_jobs = Nothing
                  /\ call.queued = Nothing => snapshot_.queue_length = 0
                  /\ call.uri = "nonzero" => snapshot_.device_uri = None
                  /\ toner_fails =>
                        /\ snapshot_.toner_levels = << >>
                        /\ snapshot_.toner_note # None

\* Every query after the first one failed, and a snapshot came back.
C21_Witness ==
    /\ call.pc = "get_status"
    /\ call.accepting = "nonzero"
    /\ call.queued = Nothing
    /\ call.uri = "nonzero"
    /\ call.ipptool
    /\ call.test
    /\ call.answers = <<"nonzero", "nonzero">>
    /\ call.outcome.kind = "returned"
    /\ call.outcome.value.state = "printing"
    /\ call.outcome.value.toner_note = NoteError

\* --------------------------------------------------------------- C29
\* C29: once shutdown_executor has run, no dispatched run is waiting to be
\* started: the runs that had not started are cancelled, their records stay
\* queued and are never written again; a run that has started still ends with
\* its job completed or failed: a cancelled run is one that was waiting, a
\* run that is over stays over with its job completed or failed, and again
\* and again no dispatched run is waiting or going on. So every dispatched
\* job ends completed or failed, or was cancelled by the shutdown and stays
\* queued.
C29_ShutdownCancelsQueued ==
    /\ [](/\ executor = "shutdown" =>
               /\ queue = << >>
               /\ \A j \in JobIds : pc[j] # "pending"
          /\ \A j \in JobIds :
               pc[j] = "done" => (j \in DOMAIN _jobs /\ Terminal(Stored(j))))
    /\ [][\A j \in JobIds :
            /\ pc[j] = "cancelled" =>
                  /\ pc'[j] = "cancelled"
                  /\ Stored(j).status = "queued"
                  /\ Stored(j)' = Stored(j)
            /\ pc'[j] = "cancelled" => pc[j] \in {"pending", "cancelled"}
            /\ pc[j] = "done" => pc'[j] = "done"]_vars
    /\ []<>(\A j \in JobIds : pc[j] \in {"none", "cancelled", "done"})

\* The executor was shut down while two runs had started and the third job
\* waited: the two ended, the third is cancelled and still queued.
C29_Witness ==
    /\ executor = "shutdown"
    /\ MaxJobs > max_workers
    /\ DOMAIN _jobs = JobIds
    /\ pc[1] = "done" /\ Terminal(Stored(1))
    /\ pc[2] = "done" /\ Terminal(Stored(2))
    /\ pc[MaxJobs] = "cancelled"
    /\ Stored(MaxJobs).status = "queued"
    /\ Stored(MaxJobs).progress = 8

\* --------------------------------------------------------------- C31
\* C31: of the create_job requests that name the same upload, at most one
\* is handed the entry by UploadRegistry.pop and at most one creates a job;
\* a request that was handed no entry ends rejected without a job; and there
\* are as many job records and dispatched runs as requests that created one.
C31_ConsumedOnce ==
    /\ \A u \in JobIds :
          LET popped == {r \in Requests :
                            /\ requests[r].pc \in {"popped", "done"}
                            /\ requests[r].upload = u}
              handed == {r \in popped : requests[r].entry # "absent"}
              ended == {r \in popped : requests[r].pc = "done"}
              created == {r \in ended : requests[r].job # Nothing}
          IN  /\ Cardinality(handed) <= 1
              /\ Cardinality(created) <= 1
              /\ created \subseteq handed
              /\ \A r \in ended \ handed : requests[r].error = MsgNoUpload
    /\ LET created == {r \in Requests : /\ requests[r].pc = "done"
                                        /\ requests[r].job # Nothing}
       IN  /\ Cardinality(DOMAIN _jobs) = Cardinality(created)
           /\ Len(queue) = Cardinality(created)

\* Two requests named the same complete upload: the first one created the
\* job, the second one was handed nothing and was rejected.
C31_Witness ==
    /\ requests[1].pc = "done"
    /\ requests[2].pc = "done"
    /\ requests[1].upload = requests[2].upload
    /\ requests[1].entry = "completed"
    /\ requests[1].job = Some(1)
    /\ requests[2].entry = "absent"
    /\ requests[2].job = Nothing
    /\ requests[2].error = MsgNoUpload
    /\ DOMAIN _jobs = {1}
    /\ queue = <<1>>

\* --------------------------------------------------------------- C32
\* The upload_chunk request answered by this step found the entry of its
\* upload open at its index and with its total.
InSequence ==
    LET u == response'.upload
    IN  /\ _uploads[u] # Nothing
        /\ ~_uploads[u][1].completed
        /\ _uploads[u][1].total_chunks = response'.total_chunks
        /\ _uploads[u][1].next_chunk_index = response'.chunk_index

\* The fields of the upload_chunk request answered by this step are valid.
ValidFields ==
    /\ response'.upload \in UploadIds
    /\ response'.original_name # ""
    /\ response'.total_chunks >= 1
    /\ response'.total_chunks <= MaxTotalChunks
    /\ response'.chunk_index >= 0

\* C32: when upload requests are handled one after another, a chunk with
\* valid fields is accepted exactly when its index is 0 or the entry of its
\* upload exists, is not completed, has the same total_chunks and has
\* next_chunk_index equal to the index; an accepted chunk leaves
\* next_chunk_index at its index plus one (index 0 on a fresh entry), its
\* data at the end of the file, and the entry completed exactly when its
\* index is total_chunks - 1; a rejected chunk leaves the registry and the
\* files as they were; a deletion completes nothing; and an entry always
\* holds the chunks 0 .. next_chunk_index - 1, in the part file until it
\* is completed and in the final file from then on.
C32_ChunksInSequence ==
    /\ [][response'.handler = "upload_chunk" =>
            LET u == response'.upload
                i == response'.chunk_index
                t == response'.total_chunks
                accepted == response'.detail = None
            IN  /\ accepted <=> (ValidFields /\ (i = 0 \/ InSequence))
                /\ ~accepted => (_uploads' = _uploads /\ disk' = disk)
                /\ accepted =>
                      /\ _uploads'[u] # Nothing
                      /\ _uploads'[u][1].next_chunk_index = i + 1
                      /\ _uploads'[u][1].total_chunks = t
                      /\ i # 0 => _uploads'[u][1].next_chunk_index
                                     = _uploads[u][1].next_chunk_index + 1
                      /\ _uploads'[u][1].completed <=> (i = t - 1)
                      /\ response'.completed <=> (i = t - 1)
                      /\ LET written == IF i = 0 THEN <<0>>
                                        ELSE Append(Content(disk[u].part), i)
                         IN  IF i = t - 1
                             THEN disk'[u] = [part |-> Nothing, final |-> Some(written)]
                             ELSE disk'[u] = [disk[u] EXCEPT !.part = Some(written)]
                      /\ \A v \in UploadIds \ {u} :
                            /\ _uploads'[v] = _uploads[v]
                            /\ disk'[v] = disk[v]]_vars
    /\ [][response'.handler = "delete_uploaded_file" =>
            \A u \in UploadIds :
                _uploads'[u] # Nothing => _uploads'[u] = _uploads[u]]_vars
    /\ [](\A u \in UploadIds :
            _uploads[u] # Nothing =>
                LET entry == _uploads[u][1]
                IN  /\ entry.next_chunk_index >= 1
                    /\ entry.next_chunk_index <= entry.total_chunks
                    /\ entry.uploaded_bytes = entry.next_chunk_index
                    /\ entry.completed
                          <=> (entry.next_chunk_index = entry.total_chunks)
                    /\ entry.completed <=> (entry.stored_path # None)
                    /\ IF entry.completed
                       THEN disk[u] = [part |-> Nothing,
                                       final |-> Some(Chunks(entry.total_chunks))]
                       ELSE disk[u].part = Some(Chunks(entry.next_chunk_index)))

\* The second and last chunk of an upload was accepted after the first: the
\* entry is completed and the final file holds both chunks in order.
C32_Witness ==
    /\ response.handler = "upload_chunk"
    /\ response.detail = None
    /\ response.chunk_index = 1
    /\ response.total_chunks = 2
    /\ response.upload \in UploadIds
    /\ _uploads[response.upload] # Nothing
    /\ _uploads[response.upload][1].completed
    /\ _uploads[response.upload][1].next_chunk_index = 2
    /\ disk[response.upload].final = Some(<<0, 1>>)

\* --------------------------------------------------------------- C33
\* How many times the chunk with this index is in the bytes.
Written(chunk_index, bytes) ==
    Cardinality({k \in DOMAIN bytes : bytes[k] = chunk_index})

\* C33: once two upload_chunk requests with the same upload id and chunk
\* index, of which one passed the checks while the other waited for its
\* data, have both ended, the data of the chunk is at most once in the
\* files of the upload and next_chunk_index is the index plus one.
C33_OverlapAppendsOnce ==
    \A r \in Requests :
        (/\ requests[r].pc = "done"
         /\ requests[r].detail = None
         /\ requests[r].overlapped # {}
         /\ \A q \in Requests : requests[q].pc \in {"idle", "done"})
        => LET u == requests[r].upload
               i == requests[r].chunk_index
           IN  /\ Written(i, Content(disk[u].part))
                    + Written(i, Content(disk[u].final)) <= 1
               /\ _uploads[u] # Nothing
               /\ _uploads[u][1].next_chunk_index = i + 1

====
